---- MODULE Spec2Model ----
(***************************************************************************)
(* Verification model of the knee-evaluation acquisition software          *)
(* (proyecto_rodilla): binary frame decoder, serial worker, configuration  *)
(* store and the session-recording window's state machine.                 *)
(***************************************************************************)
EXTENDS Integers, Sequences, FiniteSets, TLC

(***************************************************************************)
(* Bounds of the model                                                     *)
(***************************************************************************)
MaxSegments == 2
MaxChunk == 3
MaxGarbage == 3
MaxOps == 4
MaxSessions == 1
MaxConnects == 1
MaxCalls == 3
MaxSamples == 2
MaxThreads == 2
MaxMeasures == 2
MaxRomOps == 5
MaxFeeds == 4
StabilityFrames == 2

(***************************************************************************)
(* Protocol constants (config/settings.py DEFAULT_SETTINGS)                *)
(***************************************************************************)
PREAMBLE == <<165, 90>>
FRAME_TYPE_EMG == 1
FRAME_TYPE_IMU == 2
VREF_MILLI == 3275
PGA_GAIN == 1
ADC_RESOLUTION == 8388608

(***************************************************************************)
(* Byte-string helpers (Python slicing on bytearray)                       *)
(***************************************************************************)
\* buffer[n:]
DropFirst(s, n) == IF n >= Len(s) THEN <<>> ELSE SubSeq(s, n + 1, Len(s))

\* buffer[:n]
TakeFirst(s, n) == IF n >= Len(s) THEN s ELSE SubSeq(s, 1, n)

\* buffer[-1:]
LastByte(s) == IF Len(s) = 0 THEN <<>> ELSE <<s[Len(s)]>>

\* bytearray.find(PREAMBLE): 0-based index of the first occurrence, -1 if none
FindPreamble(s) ==
    LET hits == {i \in 1..(Len(s) - Len(PREAMBLE) + 1) :
                    \A k \in 1..Len(PREAMBLE) : s[i + k - 1] = PREAMBLE[k]}
    IN IF hits = {} THEN -1
       ELSE (CHOOSE i \in hits : \A j \in hits : i <= j) - 1

RECURSIVE BitXor(_, _)
BitXor(a, b) ==
    IF a = 0 THEN b
    ELSE IF b = 0 THEN a
    ELSE (((a % 2) + (b % 2)) % 2) + 2 * BitXor(a \div 2, b \div 2)

(***************************************************************************)
(* crc16_ccitt (core/frame_decoder.py)                                     *)
(***************************************************************************)
\* the inner "for _ in range(8)" loop: Python integers are unbounded, the
\* register is masked only after the eight shifts
RECURSIVE CrcShift(_, _)
CrcShift(crc, n) ==
    IF n = 0 THEN crc
    ELSE LET shifted == IF (crc \div 32768) % 2 = 1
                        THEN BitXor(crc * 2, 4129)
                        ELSE crc * 2
         IN IF shifted >= 0 THEN CrcShift(shifted, n - 1) ELSE shifted

\* the outer "for byte in data" loop, from the i-th byte on
RECURSIVE CrcFrom(_, _, _)
CrcFrom(data, i, crc) ==
    IF i > Len(data) THEN crc
    ELSE LET masked == CrcShift(BitXor(crc, data[i] * 256), 8) % 65536
         IN IF masked >= 0 THEN CrcFrom(data, i + 1, masked) ELSE masked

crc16_ccitt(data) == CrcFrom(data, 1, 65535)

(***************************************************************************)
(* struct.unpack, little endian                                            *)
(***************************************************************************)
U16(b, i) == b[i] + 256 * b[i + 1]
S16(b, i) == IF U16(b, i) >= 32768 THEN U16(b, i) - 65536 ELSE U16(b, i)
\* an unsigned 32-bit value is kept as its two 16-bit words <<high, low>>
U32(b, i) == <<U16(b, i + 2), U16(b, i)>>
\* a signed 32-bit value: 65536 * (signed high word) + low word
S32(b, i) == 65536 * S16(b, i + 2) + U16(b, i)

\* a real number kept as an exact fraction
Frac(n, d) == [num |-> n, den |-> d]

\* (raw / ADC_RESOLUTION) * (VREF / PGA_GAIN), as a product of two fractions
Volts(raw) == [ratio |-> Frac(raw, ADC_RESOLUTION),
               scale |-> Frac(VREF_MILLI, 1000 * PGA_GAIN)]

NoFrame == [type |-> "None"]

\* FrameDecoder._decode_payload
decode_payload(frame_type, payload) ==
    IF frame_type = FRAME_TYPE_EMG THEN
        IF Len(payload) # 14 THEN NoFrame
        ELSE [type |-> "EMG",
              seq |-> U16(payload, 1),
              timestamp_us |-> U32(payload, 3),
              ch0 |-> Volts(S32(payload, 7)),
              ch1 |-> Volts(S32(payload, 11))]
    ELSE IF frame_type = FRAME_TYPE_IMU THEN
        IF Len(payload) # 18 THEN NoFrame
        ELSE [type |-> "IMU",
              seq |-> U16(payload, 1),
              timestamp_us |-> U32(payload, 3),
              ax |-> Frac(S16(payload, 7), 16384),
              ay |-> Frac(S16(payload, 9), 16384),
              az |-> Frac(S16(payload, 11), 16384),
              gx |-> Frac(S16(payload, 13), 131),
              gy |-> Frac(S16(payload, 15), 131),
              gz |-> Frac(S16(payload, 17), 131)]
    ELSE NoFrame

(***************************************************************************)
(* FrameDecoder.feed (core/frame_decoder.py)                               *)
(***************************************************************************)
\* payload size by frame type, 0 for an unknown type
PayloadSize(frame_type) ==
    IF frame_type = FRAME_TYPE_EMG THEN 14
    ELSE IF frame_type = FRAME_TYPE_IMU THEN 18
    ELSE 0

\* total_frame_size = 2 + 1 + payload_size + 2
TotalFrameSize(payload_size) == 2 + 1 + payload_size + 2

\* mutant: the CRC comparison is skipped
CrcOk_Always(frame_data) == TRUE

\* crc_received == crc_calculated
CrcOk(frame_data) ==
    U16(frame_data, Len(frame_data) - 1)
        = crc16_ccitt(SubSeq(frame_data, 3, Len(frame_data) - 2))

\* mutant: the whole buffer is thrown away when no preamble is found
KeepOnNoPreamble_Nothing(buf) == <<>>

\* mutant: the buffer is kept whole when no preamble is found
KeepOnNoPreamble_All(buf) == buf

\* what is kept when no preamble is in the buffer: buffer[-1:]
KeepOnNoPreamble(buf) == LastByte(buf)

\* mutant: the type byte is dropped together with the preamble
SkipUnknownType_Three(buf) == DropFirst(buf, 3)

\* what is dropped for an unknown frame type: buffer[2:]
SkipUnknownType(buf) == DropFirst(buf, 2)

\* the buffer after a candidate frame was examined: buffer[total_frame_size:]
AdvanceBuffer(buf, total_frame_size) == DropFirst(buf, total_frame_size)

\* The while loop of feed.  st.buffer and st.frames are the code's buffer and
\* frames; st.consumed (bytes dropped from the front of the buffer since the
\* decoder was built) and st.examined (one entry per candidate frame whose
\* CRC was evaluated, with its absolute offset) are history for the properties.
RECURSIVE FeedLoop(_)
FeedLoop(st) ==
    IF Len(st.buffer) < 7 THEN st
    ELSE
      LET idx == FindPreamble(st.buffer) IN
      IF idx = -1 THEN
          [st EXCEPT !.buffer = KeepOnNoPreamble(st.buffer),
                     !.consumed = st.consumed + Len(st.buffer)
                                     - Len(KeepOnNoPreamble(st.buffer))]
      ELSE
        LET buf == IF idx > 0 THEN DropFirst(st.buffer, idx) ELSE st.buffer
            base == st.consumed + idx
        IN
        IF Len(buf) < 7 THEN [st EXCEPT !.buffer = buf, !.consumed = base]
        ELSE
          LET frame_type == buf[3]
              payload_size == PayloadSize(frame_type)
              total_frame_size == TotalFrameSize(payload_size)
          IN
          IF frame_type # FRAME_TYPE_EMG /\ frame_type # FRAME_TYPE_IMU THEN
              FeedLoop([st EXCEPT !.buffer = SkipUnknownType(buf),
                                  !.consumed = base + Len(buf)
                                                  - Len(SkipUnknownType(buf))])
          ELSE IF Len(buf) < total_frame_size THEN
              [st EXCEPT !.buffer = buf, !.consumed = base]
          ELSE
            LET frame_data == TakeFirst(buf, total_frame_size)
                ok == CrcOk(frame_data)
                decoded == IF ok
                           THEN decode_payload(frame_type,
                                    SubSeq(frame_data, 4, total_frame_size - 2))
                           ELSE NoFrame
                emit == ok /\ decoded # NoFrame
                rest == AdvanceBuffer(buf, total_frame_size)
            IN FeedLoop([buffer |-> rest,
                         frames |-> IF emit THEN Append(st.frames, decoded)
                                    ELSE st.frames,
                         consumed |-> base + Len(buf) - Len(rest),
                         examined |-> Append(st.examined,
                                         [off |-> base, size |-> total_frame_size,
                                          emitted |-> emit])])

\* feed(data): extend the buffer, run the loop, return the frames
feed(dec, data) ==
    FeedLoop([buffer |-> dec.buffer \o data, frames |-> <<>>,
              consumed |-> dec.consumed, examined |-> dec.examined])

\* FrameDecoder.__init__
NewDecoder == [buffer |-> <<>>, frames |-> <<>>, consumed |-> 0, examined |-> <<>>]

(***************************************************************************)
(* Input byte streams: frames as the device puts them on the wire          *)
(***************************************************************************)
LE16(v) == <<v % 256, (v \div 256) % 256>>
Wrap16(v) == IF v < 0 THEN v + 65536 ELSE v
\* two's complement of a signed 32-bit value, low word first
LE32(v) == LE16(v % 65536) \o LE16(Wrap16((v - (v % 65536)) \div 65536))

WireFrame(frame_type, payload) ==
    PREAMBLE \o <<frame_type>> \o payload \o LE16(crc16_ccitt(<<frame_type>> \o payload))

EMGWire(seq, ts, a, b) ==
    WireFrame(FRAME_TYPE_EMG, LE16(seq) \o LE32(ts) \o LE32(a) \o LE32(b))

IMUWire(seq, ts, ax, ay, az, gx, gy, gz) ==
    WireFrame(FRAME_TYPE_IMU,
              LE16(seq) \o LE32(ts) \o LE16(Wrap16(ax)) \o LE16(Wrap16(ay))
                 \o LE16(Wrap16(az)) \o LE16(Wrap16(gx)) \o LE16(Wrap16(gy))
                 \o LE16(Wrap16(gz)))

\* a frame whose CRC field does not match: the last byte is changed
Corrupt(w) == [w EXCEPT ![Len(w)] = (w[Len(w)] + 1) % 256]

ValidEMG == EMGWire(7, 1000, 4096, -2)
ValidIMU == IMUWire(8, 2000, 16384, -1, 0, 131, -131, 5)
\* a valid frame whose payload holds a preamble followed by the EMG tag
TrickyEMG == EMGWire(90 * 256 + 165, 1, 165 + 90 * 256, 0)
BadEMG == Corrupt(ValidEMG)

ValidFrames == {ValidEMG, ValidIMU, TrickyEMG}

Segments ==
    ValidFrames \cup {BadEMG}
        \cup {<<0, 0, 0, 0, 0, 0>>, <<165>>, <<165, 90, 9>>, <<165, 90, 1>>}

RECURSIVE StreamsOf(_)
StreamsOf(n) ==
    IF n = 0 THEN {<<>>}
    ELSE LET shorter == StreamsOf(n - 1)
         IN shorter \cup {s \o g : s \in shorter, g \in Segments}

Streams == StreamsOf(MaxSegments)

GarbageBytes == {0, FRAME_TYPE_EMG, FRAME_TYPE_IMU, PREAMBLE[1], PREAMBLE[2]}

RECURSIVE GarbageOf(_)
GarbageOf(n) ==
    IF n = 0 THEN {<<>>}
    ELSE LET shorter == GarbageOf(n - 1)
         IN shorter \cup {Append(g, b) : g \in shorter, b \in GarbageBytes}

Garbage == GarbageOf(MaxGarbage)

(***************************************************************************)
(* Configuration store (config/settings.py)                                *)
(*                                                                         *)
(* Python values are tagged: an int, a float (kept in hundredths), a str,  *)
(* a list / tuple / bytes of ints, or None.  The record is modelled on one *)
(* key of every schema type and on every input of the derived keys.        *)
(***************************************************************************)
\* fields: t the Python type, n the number, s the text, q the elements
PyValue(t, n, s, q) == [t |-> t, n |-> n, s |-> s, q |-> q]
IntV(n) == PyValue("int", n, "", <<>>)
FloatV(h) == PyValue("float", h, "", <<>>)
StrV(x) == PyValue("str", 0, x, <<>>)
ListV(q) == PyValue("list", 0, "", q)
TupleV(q) == PyValue("tuple", 0, "", q)
BytesV(q) == PyValue("bytes", 0, "", q)
NoneV == PyValue("none", 0, "", <<>>)

DEFAULT_SETTINGS ==
    [k \in {"PREAMBLE", "EMG_FS", "RMS_WINDOW_MS", "IMU_FS", "WINDOW_TIME_SEC",
            "UPDATE_FPS", "COLOR_CH0", "CONFIG_FILE"} |->
        CASE k = "PREAMBLE" -> ListV(PREAMBLE)
          [] k = "EMG_FS" -> FloatV(163578)
          [] k = "RMS_WINDOW_MS" -> IntV(100)
          [] k = "IMU_FS" -> IntV(50)
          [] k = "WINDOW_TIME_SEC" -> FloatV(500)
          [] k = "UPDATE_FPS" -> IntV(25)
          [] k = "COLOR_CH0" -> ListV(<<31, 119, 180>>)
          [] k = "CONFIG_FILE" -> StrV("system_config.json")]

DefaultKeys == DOMAIN DEFAULT_SETTINGS

DerivedKeys == {"RMS_WINDOW_SAMPLES", "UPDATE_INTERVAL_MS", "EMG_BUFFER_SIZE",
                "IMU_BUFFER_SIZE"}

\* SETTINGS_SCHEMA[key]["type"], "" for a key without schema
SchemaType(key) ==
    CASE key \in {"EMG_FS", "WINDOW_TIME_SEC"} -> "float"
      [] key \in {"RMS_WINDOW_MS", "IMU_FS", "UPDATE_FPS"} -> "int"
      [] key = "COLOR_CH0" -> "color"
      [] key = "PREAMBLE" -> "bytes"
      [] key = "CONFIG_FILE" -> "str"
      [] key \in DerivedKeys -> "derived"
      [] OTHER -> ""

\* the text of the strings that int() and float() can parse, with the value
\* in hundredths; every other string makes them raise ValueError
NumericText == [x \in {"200", "2.5"} |-> IF x = "200" THEN 20000 ELSE 250]

\* str(value) for the values that are turned into strings
TextOf(value) ==
    IF value.t = "str" THEN value.s
    ELSE IF value.t = "none" THEN "None"
    ELSE IF value = IntV(1) THEN "1"
    ELSE "?"

\* truncation towards zero, as int() does
TruncDiv(a, b) == IF a >= 0 THEN a \div b ELSE 0 - ((0 - a) \div b)

IsNum(value) == value.t \in {"int", "float"}

Hundredths(value) == IF value.t = "int" THEN value.n * 100 ELSE value.n

Ok(value) == [ok |-> TRUE, value |-> value, exc |-> ""]
Raise(exc) == [ok |-> FALSE, value |-> NoneV, exc |-> exc]

\* int(value)
PyInt(value) ==
    CASE value.t = "int" -> Ok(value)
      [] value.t = "float" -> Ok(IntV(TruncDiv(value.n, 100)))
      [] value.t = "str" ->
            IF value.s \in DOMAIN NumericText /\ NumericText[value.s] % 100 = 0
            THEN Ok(IntV(NumericText[value.s] \div 100))
            ELSE Raise("ValueError")
      [] OTHER -> Raise("TypeError")

\* float(value)
PyFloat(value) ==
    CASE value.t = "int" -> Ok(FloatV(value.n * 100))
      [] value.t = "float" -> Ok(value)
      [] value.t = "str" ->
            IF value.s \in DOMAIN NumericText
            THEN Ok(FloatV(NumericText[value.s]))
            ELSE Raise("ValueError")
      [] OTHER -> Raise("TypeError")

\* mutant: the length of a color is not validated
coerce_color_AnyLength(value) ==
    IF value.t \in {"list", "tuple"} THEN Ok(ListV(value.q)) ELSE Raise("ValueError")

\* _coerce_value, type "color"
coerce_color(value) ==
    IF value.t \in {"list", "tuple"} /\ Len(value.q) = 3
    THEN Ok(ListV(value.q))
    ELSE Raise("ValueError")

\* _coerce_value
coerce_value(key, value) ==
    LET value_type == SchemaType(key) IN
    CASE value_type = "int" -> PyInt(value)
      [] value_type = "float" -> PyFloat(value)
      [] value_type = "choice" -> Ok(value)
      [] value_type = "color" -> coerce_color(value)
      [] value_type = "bytes" ->
            IF value.t = "bytes" THEN Ok(ListV(value.q))
            ELSE IF value.t \in {"list", "tuple"}
            THEN Ok(ListV([i \in 1..Len(value.q) |-> value.q[i] % 256]))
            ELSE Raise("ValueError")
      [] value_type = "str" -> Ok(StrV(TextOf(value)))
      [] OTHER -> Ok(value)

\* _normalize_settings: color tuples and a bytes preamble become lists
normalize_settings(values) ==
    [k \in DOMAIN values |->
        IF k = "COLOR_CH0" /\ values[k].t = "tuple" THEN ListV(values[k].q)
        ELSE IF k = "PREAMBLE" /\ values[k].t = "bytes" THEN ListV(values[k].q)
        ELSE values[k]]

\* DERIVED_KEYS: the value of a derived key, or a raised TypeError when an
\* operand is not a number
DerivedValue(key, s) ==
    CASE key = "RMS_WINDOW_SAMPLES" ->
            IF IsNum(s["EMG_FS"]) /\ s["RMS_WINDOW_MS"].t = "int"
            THEN Ok(IntV(TruncDiv(Hundredths(s["EMG_FS"]) * s["RMS_WINDOW_MS"].n,
                                  100000)))
            ELSE Raise("TypeError")
      [] key = "UPDATE_INTERVAL_MS" ->
            IF IsNum(s["UPDATE_FPS"])
            THEN Ok(IntV(TruncDiv(100000,
                        IF Hundredths(s["UPDATE_FPS"]) > 100
                        THEN Hundredths(s["UPDATE_FPS"]) ELSE 100)))
            ELSE Raise("TypeError")
      [] key = "EMG_BUFFER_SIZE" ->
            IF IsNum(s["EMG_FS"]) /\ IsNum(s["WINDOW_TIME_SEC"])
            THEN Ok(IntV(TruncDiv(Hundredths(s["EMG_FS"])
                                     * Hundredths(s["WINDOW_TIME_SEC"]), 10000)))
            ELSE Raise("TypeError")
      [] key = "IMU_BUFFER_SIZE" ->
            IF s["IMU_FS"].t = "int" /\ IsNum(s["WINDOW_TIME_SEC"])
            THEN Ok(IntV(TruncDiv(s["IMU_FS"].n * Hundredths(s["WINDOW_TIME_SEC"]),
                                  100)))
            ELSE Raise("TypeError")

\* mutant: the derived values are left as they are
compute_derived_Stale(s) ==
    [raised |-> FALSE,
     settings |-> [k \in DOMAIN s \cup DerivedKeys |->
                      IF k \in DOMAIN s THEN s[k] ELSE IntV(0)]]

\* _compute_derived: settings[key] = fn(settings) for every derived key
compute_derived(s) ==
    IF \E k \in DerivedKeys : ~ DerivedValue(k, s).ok
    THEN [raised |-> TRUE, settings |-> s]
    ELSE [raised |-> FALSE,
          settings |-> [k \in DOMAIN s \cup DerivedKeys |->
                           IF k \in DerivedKeys THEN DerivedValue(k, s).value
                           ELSE s[k]]]

\* _apply_to_module: the module-level names
apply_to_module(s) ==
    [k \in DOMAIN s |->
        IF k = "PREAMBLE" /\ s[k].t = "list" THEN BytesV(s[k].q)
        ELSE IF k = "COLOR_CH0" /\ s[k].t = "list" THEN TupleV(s[k].q)
        ELSE s[k]]

\* json.dump followed by json.load: tuples come back as lists
JsonValue(value) == IF value.t = "tuple" THEN ListV(value.q) ELSE value

\* the files of the project root
Files == {"system_config.json", "other.json"}

Absent == [kind |-> "absent"]
\* a file json.dump wrote (by = "program") or somebody else did
JsonFile(data, by) == [kind |-> "json", data |-> data, by |-> by]

\* _config_path
config_path(settings) == settings["CONFIG_FILE"].s

\* _load_from_disk: kinds "absent", "unreadable" (OSError) and "not_json"
\* (JSONDecodeError) return the settings; "not_utf8" raises UnicodeDecodeError;
\* JSON that is not an object has no items()
load_from_disk(settings, files) ==
    LET file == files[config_path(settings)] IN
    CASE file.kind \in {"absent", "unreadable", "not_json"} ->
            [raised |-> FALSE, settings |-> settings]
      [] file.kind = "not_utf8" -> [raised |-> TRUE, settings |-> settings]
      [] file.kind = "json_list" -> [raised |-> TRUE, settings |-> settings]
      [] file.kind = "json" ->
            [raised |-> FALSE,
             settings |-> [k \in DOMAIN settings |->
                              IF k \in DOMAIN file.data THEN file.data[k]
                              ELSE settings[k]]]

\* load_settings, up to the assignment of _runtime_settings
load_settings(files) ==
    LET base == normalize_settings(DEFAULT_SETTINGS)
        loaded == load_from_disk(base, files)
    IN IF loaded.raised THEN loaded ELSE compute_derived(loaded.settings)

\* the keys of a batch that update_settings assigns
Assignable(key) == key \in DefaultKeys /\ key \notin DerivedKeys

\* the for loop of update_settings over the batch (a Python dict, in order)
RECURSIVE coerce_batch(_, _, _)
coerce_batch(updated, new_values, i) ==
    IF i > Len(new_values) THEN [raised |-> FALSE, settings |-> updated]
    ELSE LET key == new_values[i][1]
             value == new_values[i][2]
         IN IF ~ Assignable(key) THEN coerce_batch(updated, new_values, i + 1)
            ELSE LET coerced == coerce_value(key, value)
                 IN IF ~ coerced.ok THEN [raised |-> TRUE, settings |-> updated]
                    ELSE coerce_batch([updated EXCEPT ![key] = coerced.value],
                                      new_values, i + 1)

\* mutant: the batch is applied to the live record, not to a copy
SettingsAfterError_Partial(before, partial) == partial

\* what the record holds when update_settings raised: the loop worked on a
\* deep copy, the record itself was not touched
SettingsAfterError(before, partial) == before

\* the persisted subset: the keys of DEFAULT_SETTINGS
Persistable(settings) ==
    LET n == normalize_settings(settings)
    IN [k \in DOMAIN n \cap DefaultKeys |-> JsonValue(n[k])]

(***************************************************************************)
(* Inputs of the configuration store                                       *)
(***************************************************************************)
\* the batches passed to update_settings, as Python dicts in insertion order
Batches ==
    {<< <<"EMG_FS", IntV(500)>> >>,
     << <<"COLOR_CH0", ListV(<<1, 2, 3, 4>>)>> >>,
     << <<"COLOR_CH0", TupleV(<<1, 2, 3>>)>>, <<"RMS_WINDOW_MS", NoneV>> >>,
     << <<"RMS_WINDOW_MS", StrV("200")>>, <<"EMG_FS", StrV("abc")>> >>,
     << <<"RMS_WINDOW_SAMPLES", IntV(5)>>, <<"BOGUS", IntV(1)>>,
        <<"WINDOW_TIME_SEC", StrV("2.5")>> >>,
     << <<"PREAMBLE", ListV(<<421, 91>>)>>, <<"UPDATE_FPS", IntV(0)>> >>,
     << <<"CONFIG_FILE", StrV("other.json")>> >>}

\* what somebody may leave in a configuration file
ForeignFiles ==
    {Absent, [kind |-> "unreadable"], [kind |-> "not_json"], [kind |-> "not_utf8"],
     [kind |-> "json_list"],
     JsonFile([k \in {"EMG_FS"} |-> NoneV], "other"),
     JsonFile([k \in {"EMG_FS", "BOGUS", "RMS_WINDOW_SAMPLES"} |->
                 IF k = "EMG_FS" THEN IntV(500) ELSE IntV(7)], "other"),
     JsonFile([k \in {"COLOR_CH0"} |-> StrV("red")], "other")}

(***************************************************************************)
(* State                                                                   *)
(***************************************************************************)
VARIABLES
    stream,     \* the bytes the device sends
    garbage,    \* the leading bytes of the stream that belong to no frame
    fed,        \* how many bytes of the stream were passed to feed so far
    chunked,    \* TRUE once the stream was passed in more than one call
    decoder,    \* the FrameDecoder (buffer, plus history)
    returned,   \* concatenation of the lists returned by the feed calls
    noise_feeds,  \* number of feed calls made with line noise
    runtime_settings,  \* config.settings._runtime_settings
    module_globals,    \* the module-level names of config.settings
    disk,              \* the files of the project root
    last,              \* the last call made on the configuration store
    ops,               \* number of calls made on the configuration store
    th_pc,             \* where the worker thread is in SerialReaderThread.run
    running,           \* SerialReaderThread.running
    stop_requested,    \* stop() was called on the worker
    serial_conn,       \* SerialReaderThread.serial_conn: none, open, closed
    events,            \* the signals the worker emitted during this run
    ui_queue,          \* emitted signals the UI thread has not handled yet
    serial_thread,     \* the window holds a worker (serial_thread is not None)
    is_connected,      \* SessionRecordingWindow.is_connected
    btn_toggle_connection,  \* the connect button is enabled
    recording_state,   \* SessionRecordingWindow.recording_state
    session_recorder,  \* the SessionRecorder of the window, or NoRecorder
    session_dirs,      \* the session directories on disk
    pending_countdown, \* SessionRecordingWindow.pending_countdown
    countdown_timer,   \* the countdown timer is active
    btn_record,        \* the record button is enabled
    btn_pause,         \* the pause button is enabled
    btn_stop,          \* the stop button is enabled
    calibrated,        \* angle_calculator.calibrated
    raw_angle_stored,  \* angle_calculator has last_uncalibrated_angle
    patient_id,        \* the text of the patient id input
    t0_emg,            \* timestamp origin of the EMG frames, <<>> for None
    t0_imu,            \* timestamp origin of the IMU frames, <<>> for None
    ui_waiting,        \* the UI thread is blocked in serial_thread.wait()
    ui_last,           \* the last button handler that ran, and its outcome
    processed,         \* the frames _on_frame_received handled, in order
    connects,          \* number of workers the window started
    calc,              \* the AngleCalculator of a window
    angle_last,        \* the last call made on the calculator, its outcome
    angle_ops,         \* number of calls made on the calculator
    h5py,              \* the h5py module could be imported
    emg_records,       \* SessionRecorder._emg_records (sequence numbers)
    imu_records,       \* SessionRecorder._imu_records (sequence numbers)
    session_files,     \* the files of the session and patient directories
    ses_phase,         \* recording, finalized
    loaded,            \* the last load of the stored data, and its outcome
    win_kind,          \* which acquisition window manages the connection
    win_raw_attr,      \* its calculator exposes last_uncalibrated_angle
    threads,           \* the SerialReaderThread objects the window created
    link,              \* the connection state of the window
    win_queue,         \* status signals queued to the window
    win_last,          \* the last operation of the window
    mvc,               \* the EMGNormalizationDialog
    rom,               \* the ROMDialog
    cal                \* the CalibrationDialog

decVars == <<stream, garbage, fed, chunked, decoder, returned, noise_feeds>>
cfgVars == <<runtime_settings, module_globals, disk, last, ops>>
serVars == <<th_pc, running, stop_requested, serial_conn, events, ui_queue>>
winVars == <<serial_thread, is_connected, btn_toggle_connection,
             recording_state, session_recorder, session_dirs,
             pending_countdown, countdown_timer, btn_record, btn_pause,
             btn_stop, calibrated, raw_angle_stored, patient_id, t0_emg,
             t0_imu, ui_waiting,
             ui_last, processed, connects>>
angVars == <<calc, angle_last, angle_ops>>
sesVars == <<h5py, emg_records, imu_records, session_files, ses_phase, loaded>>
conVars == <<win_kind, win_raw_attr, threads, link, win_queue, win_last>>
dlgVars == <<mvc, rom, cal>>
guiVars == <<conVars, dlgVars>>
vars == <<stream, garbage, fed, chunked, decoder, returned, noise_feeds,
          runtime_settings, module_globals, disk, last, ops,
          th_pc, running, stop_requested, serial_conn, events, ui_queue,
          serial_thread, is_connected, btn_toggle_connection,
          recording_state, session_recorder, session_dirs,
          pending_countdown, countdown_timer, btn_record, btn_pause,
          btn_stop, calibrated, raw_angle_stored, patient_id, t0_emg, t0_imu,
          ui_waiting,
          ui_last, processed, connects, calc, angle_last, angle_ops,
          h5py, emg_records, imu_records, session_files, ses_phase, loaded,
          win_kind, win_raw_attr, threads, link, win_queue, win_last,
          mvc, rom, cal>>

\* the parts of the program a specification does not exercise stay as built
DecIdle ==
    /\ stream = <<>>
    /\ garbage = <<>>
    /\ fed = 0
    /\ chunked = FALSE
    /\ decoder = NewDecoder
    /\ returned = <<>>
    /\ noise_feeds = 0

Call(op, raised, batch, persist) ==
    [op |-> op, raised |-> raised, batch |-> batch, persist |-> persist]

\* the module is imported with no configuration file: load_settings()
CfgIdle ==
    /\ disk = [f \in Files |-> Absent]
    /\ runtime_settings = load_settings([f \in Files |-> Absent]).settings
    /\ module_globals
          = apply_to_module(load_settings([f \in Files |-> Absent]).settings)
    /\ last = Call("import", FALSE, <<>>, FALSE)
    /\ ops = 0

\* no worker thread was created
SerIdle ==
    /\ th_pc = "none"
    /\ running = FALSE
    /\ stop_requested = FALSE
    /\ serial_conn = "none"
    /\ events = <<>>
    /\ ui_queue = <<>>

\* a session that has no recorder (session_recorder is None)
NoRecorder ==
    [id |-> 0, started |-> FALSE, emg_start_us |-> <<>>, imu_start_us |-> <<>>,
     records |-> <<>>]

\* the outcome of a handler of the window
Handled(handler, outcome) == [handler |-> handler, outcome |-> outcome]

\* the session recording window as constructed
WinIdle ==
    /\ serial_thread = FALSE
    /\ is_connected = FALSE
    /\ btn_toggle_connection = TRUE
    /\ recording_state = "IDLE"
    /\ session_recorder = NoRecorder
    /\ session_dirs = [i \in 1..MaxSessions |-> "absent"]
    /\ pending_countdown = 3
    /\ countdown_timer = FALSE
    /\ btn_record = TRUE
    /\ btn_pause = FALSE
    /\ btn_stop = FALSE
    /\ calibrated = FALSE
    /\ raw_angle_stored = FALSE
    /\ patient_id = ""
    /\ t0_emg = <<>>
    /\ t0_imu = <<>>
    /\ ui_waiting = FALSE
    /\ ui_last = Handled("init", "")
    /\ processed = <<>>
    /\ connects = 0

(***************************************************************************)
(* AngleCalculator: exact rational arithmetic stands for the floats        *)
(***************************************************************************)
Abs(x) == IF x < 0 THEN -x ELSE x

RECURSIVE Gcd(_, _)
Gcd(a, b) ==
    IF b = 0 THEN a
    ELSE LET r == a % b IN IF r >= 0 THEN Gcd(b, r) ELSE r

\* the fraction n/d in lowest terms, d > 0
Rat(n, d) ==
    LET g == Gcd(Abs(n), Abs(d))
        s == IF d < 0 THEN -1 ELSE 1
    IN [n |-> (s * n) \div g, d |-> (s * d) \div g]

RInt(i) == [n |-> i, d |-> 1]
RAdd(a, b) == Rat(a.n * b.d + b.n * a.d, a.d * b.d)
RSub(a, b) == Rat(a.n * b.d - b.n * a.d, a.d * b.d)
RMul(a, b) == Rat(a.n * b.n, a.d * b.d)
\* a / b, for b other than zero
RDiv(a, b) == Rat(a.n * b.d, a.d * b.n)

\* cfg.COMPLEMENTARY_FILTER_ALPHA = 0.98
ALPHA == Rat(98, 100)

\* cfg.IMU_FS = 50
IMU_FS == 50

\* AngleCalculator.__init__: no attribute last_uncalibrated_angle is created
\* (last_uncalibrated_angle is <<>> while the attribute does not exist)
NewCalculator ==
    [angle |-> RInt(0), last_time |-> <<>>, calibrated |-> FALSE,
     offset |-> RInt(0), scale |-> RInt(1),
     angle_ref1 |-> RInt(0), angle_ref2 |-> RInt(90),
     last_uncalibrated_angle |-> <<>>]

\* update: the calibration applied to the fused angle
calibrated_angle(c) ==
    IF c.calibrated THEN RMul(RSub(c.angle, c.offset), c.scale) ELSE c.angle

\* update: dt, gyro integration and the complementary filter; angle_accel
\* is what calculate_angle_accel returns for the acceleration of the frame
angle_gyro(c, gx, timestamp_us) ==
    LET dt == IF c.last_time # <<>>
              THEN Rat(timestamp_us - c.last_time[1], 1000000)
              ELSE Rat(1, IMU_FS)
    IN RAdd(c.angle, RMul(RInt(-gx), dt))

update(c, angle_accel, gx, timestamp_us) ==
    LET fused == RAdd(RMul(ALPHA, angle_gyro(c, gx, timestamp_us)),
                      RMul(RSub(RInt(1), ALPHA), angle_accel))
    IN [c EXCEPT !.last_time = <<timestamp_us>>, !.angle = fused]

\* calibrate_one_point
calibrate_one_point(c, angle_ref) ==
    [c EXCEPT !.offset = RSub(c.angle, angle_ref), !.scale = RInt(1),
              !.calibrated = TRUE]

\* calibrate_two_points, for raw1 other than raw2: the scale is assigned,
\* then angle_ref1 / scale raises ZeroDivisionError when the scale is zero
calibrate_two_points(c, raw1, ref1, raw2, ref2) ==
    LET scale == RDiv(RSub(ref2, ref1), RSub(raw2, raw1))
    IN IF scale.n = 0
       THEN [raised |-> "ZeroDivisionError", calc |-> [c EXCEPT !.scale = scale]]
       ELSE [raised |-> "",
             calc |-> [c EXCEPT !.scale = scale,
                                !.offset = RSub(raw1, RDiv(ref1, scale)),
                                !.angle_ref1 = ref1, !.angle_ref2 = ref2,
                                !.calibrated = TRUE]]

\* reset
calc_reset(c) ==
    [c EXCEPT !.angle = RInt(0), !.last_time = <<>>, !.calibrated = FALSE,
              !.offset = RInt(0), !.scale = RInt(1)]

\* a window reads angle_calculator.last_uncalibrated_angle
ReadRaw(c) ==
    IF c.last_uncalibrated_angle = <<>> THEN "AttributeError" ELSE ""

\* a call on the calculator, what it raised, what the window's read of
\* last_uncalibrated_angle after it raised, and what update returned
AngleCall(op, raised, read_raised, out, points) ==
    [op |-> op, raised |-> raised, read_raised |-> read_raised, out |-> out,
     points |-> points]

\* no window has built its calculator yet
AngIdle ==
    /\ calc = NewCalculator
    /\ angle_last = AngleCall("none", "", "", <<>>, <<>>)
    /\ angle_ops = 0

(***************************************************************************)
(* Session storage: SessionRecorder writes a session directory,           *)
(* SessionDataset and discover_patients read it back                       *)
(***************************************************************************)
\* a stored or loaded array; one array per stream stands for the datasets
\* of the stream, which are written and read together; its items are the
\* sequence numbers
Arr(items) == [kind |-> "array", items |-> items]
\* what np.array(None) builds: a 0-d object array, which is not None
ObjectScalar == [kind |-> "object_scalar", items |-> <<>>]
PyNone == [kind |-> "None", items |-> <<>>]

\* astype(np.uint16)
ToU16(x) == x % 65536
RECURSIVE AsU16(_)
AsU16(s) == IF s = <<>> THEN <<>> ELSE <<ToU16(Head(s))>> \o AsU16(Tail(s))

FileNames == {"profile.json", "metadata.json", "events.json",
              "calibration.json", "notes.txt", "raw_data.h5", "raw_data.npz"}
JsonFiles == {"profile.json", "metadata.json", "events.json",
              "calibration.json"}
RawFiles == {"raw_data.h5", "raw_data.npz"}

\* a file: absent, or its content; groups and the two arrays are those of a
\* raw file (PyNone where the dataset or the key was not written)
File(kind, groups, emg, imu) ==
    [kind |-> kind, groups |-> groups, emg |-> emg, imu |-> imu]
NoFile == File("absent", {}, PyNone, PyNone)
JsonDict == File("dict", {}, PyNone, PyNone)
JsonOther == File("other_json", {}, PyNone, PyNone)
CorruptFile == File("corrupt", {}, PyNone, PyNone)
TextFile == File("text", {}, PyNone, PyNone)
EmptyFile == File("empty", {}, PyNone, PyNone)

StoredArr(records) ==
    IF records = <<>> THEN PyNone ELSE Arr(AsU16(records))

\* both groups are created, their datasets only for a stream with records
write_raw_data_h5_file(emg, imu) ==
    File("h5", {"emg", "imu"}, StoredArr(emg), StoredArr(imu))

\* keys only for a stream with records; an empty payload is a touched file
write_raw_data_npz_file(emg, imu) ==
    IF emg = <<>> /\ imu = <<>>
    THEN EmptyFile
    ELSE File("npz", {}, StoredArr(emg), StoredArr(imu))

\* _write_raw_data_h5, which falls back to the npz layout without h5py
write_raw_data(files, emg, imu) ==
    IF h5py
    THEN [files EXCEPT !["raw_data.h5"] = write_raw_data_h5_file(emg, imu)]
    ELSE [files EXCEPT !["raw_data.npz"] = write_raw_data_npz_file(emg, imu)]

finalize(files, emg, imu) ==
    write_raw_data([files EXCEPT !["metadata.json"] = JsonDict,
                                 !["events.json"] = JsonDict,
                                 !["calibration.json"] = JsonDict,
                                 !["notes.txt"] = TextFile],
                   emg, imu)

\* helpers.load_json: {} for a missing file, else json.load, unguarded
load_json_raises(f) ==
    IF f.kind \in {"absent", "dict", "other_json"} THEN ""
    ELSE "JSONDecodeError"

\* discover_patients reads profile.json and metadata.json of the session
discover_patients_raises(files) ==
    IF load_json_raises(files["profile.json"]) # ""
    THEN load_json_raises(files["profile.json"])
    ELSE load_json_raises(files["metadata.json"])

\* SessionDataset.__init__: _safe_load_json of calibration.json, then of
\* events.json
dataset_init_raises(files) ==
    IF load_json_raises(files["calibration.json"]) # ""
    THEN load_json_raises(files["calibration.json"])
    ELSE load_json_raises(files["events.json"])

\* np.array(grp.get(name))
H5Get(a) == IF a = PyNone THEN ObjectScalar ELSE a

\* _emg_data / _imu_data ["timestamps_us"] after _load_raw_data, and what
\* the load raised
RawData(raised, emg, imu) == [raised |-> raised, emg |-> emg, imu |-> imu]
load_from_h5(f) ==
    IF f.kind # "h5" THEN RawData("OSError", PyNone, PyNone)
    ELSE RawData("",
                 IF "emg" \in f.groups THEN H5Get(f.emg) ELSE PyNone,
                 IF "imu" \in f.groups THEN H5Get(f.imu) ELSE PyNone)
load_from_npz(f) ==
    IF f.kind = "empty" THEN RawData("EOFError", PyNone, PyNone)
    ELSE IF f.kind # "npz" THEN RawData("ValueError", PyNone, PyNone)
    ELSE RawData("", f.emg, f.imu)
load_raw_data(files) ==
    IF files["raw_data.h5"] # NoFile /\ h5py
    THEN load_from_h5(files["raw_data.h5"])
    ELSE IF files["raw_data.npz"] # NoFile
    THEN load_from_npz(files["raw_data.npz"])
    ELSE RawData("", PyNone, PyNone)

\* the outcome of discover_patients(), SessionDataset(...), has_emg(),
\* has_imu() and the read of the two sequence arrays, up to the first
\* exception
Loaded(op, raised, has_emg, has_imu, emg, imu) ==
    [op |-> op, raised |-> raised, has_emg |-> has_emg, has_imu |-> has_imu,
     emg |-> emg, imu |-> imu]
NotLoaded == Loaded("none", "", FALSE, FALSE, PyNone, PyNone)
load_session(files) ==
    LET d == discover_patients_raises(files)
        i == dataset_init_raises(files)
        r == load_raw_data(files)
    IN  IF d # "" THEN Loaded("discover_patients", d, FALSE, FALSE, PyNone, PyNone)
        ELSE IF i # "" THEN Loaded("SessionDataset", i, FALSE, FALSE, PyNone, PyNone)
        ELSE IF r.raised # ""
        THEN Loaded("has_emg", r.raised, FALSE, FALSE, PyNone, PyNone)
        ELSE Loaded("loaded", "", r.emg # PyNone, r.imu # PyNone, r.emg, r.imu)

\* no session directory has been written
SesIdle ==
    /\ h5py = FALSE
    /\ emg_records = <<>>
    /\ imu_records = <<>>
    /\ session_files = [n \in FileNames |-> NoFile]
    /\ ses_phase = "none"
    /\ loaded = NotLoaded

(***************************************************************************)
(* Connection management of an acquisition window                          *)
(***************************************************************************)
\* a SerialReaderThread object: where its run is, and its running flag
Thread(pc, flag) == [pc |-> pc, running |-> flag]
NoThread == Thread("none", FALSE)

\* QThread.isRunning(): start() was called and run has not returned
Live(t) == t.pc \notin {"none", "done"}
SomeLive(ths) == \E i \in DOMAIN ths : Live(ths[i])

\* serial_thread (0 for None), is_connected, the connect button, the
\* operation blocked in wait() ("" for none), and whether the window closed
Win(serial_thread_, is_connected_, button, waiting, closed) ==
    [serial_thread |-> serial_thread_, is_connected |-> is_connected_,
     button |-> button, waiting |-> waiting, closed |-> closed]

\* the last operation of the window, and whether a worker it had started
\* was running when the operation started a new one, or touched the
\* buffers, processors or state of the window
WinOp(op, live) == [op |-> op, live |-> live]

\* no acquisition window is open
ConIdle ==
    /\ win_kind = "none"
    /\ win_raw_attr = FALSE
    /\ threads = [i \in 1..MaxThreads |-> NoThread]
    /\ link = Win(0, FALSE, TRUE, "", FALSE)
    /\ win_queue = <<>>
    /\ win_last = WinOp("none", FALSE)

(***************************************************************************)
(* EMGNormalizationDialog: floats are integers, None is <<>> and a value   *)
(* v is <<v>>                                                              *)
(***************************************************************************)
MEASURE_MS == 3000
TICK_MS == 100
Channels == {0, 1}
None == <<>>
Some(v) == <<v>>
Max(a, b) == IF a >= b THEN a ELSE b

\* the dialog after __init__ with the MVC values of the window; pushed and
\* ticks keep, for the running measurement, the absolute RMS values pushed
\* for its channel and the number of ticks handled
NewMvcDialog(values) ==
    [values |-> values,
     current_rms |-> [c \in Channels |-> 0],
     active |-> None,
     remaining_ms |-> 0,
     current_max |-> 0,
     timer |-> FALSE,
     buttons |-> [c \in Channels |-> TRUE],
     phase |-> "open",
     emitted |-> <<>>,
     last |-> "init",
     measurements |-> 0,
     pushed |-> {},
     ticks |-> 0]

\* set_current_rms
set_current_rms(d, ch0, ch1) ==
    LET rms == [c \in Channels |-> IF c = 0 THEN ch0 ELSE ch1]
        counted == d.active # None /\ d.remaining_ms > 0
    IN  [d EXCEPT !.current_rms = rms,
                  !.current_max = IF counted
                                  THEN Max(@, Abs(rms[d.active[1]])) ELSE @,
                  !.pushed = IF counted
                             THEN @ \cup {Abs(rms[d.active[1]])} ELSE @,
                  !.last = "rms"]

\* line 120: a measurement is in progress
start_refused_Never(active) == FALSE
start_refused(active) == active # None

\* _start_measurement
start_measurement(d, channel) ==
    IF start_refused(d.active)
    THEN [d EXCEPT !.last = "refused"]
    ELSE [d EXCEPT !.active = Some(channel),
                   !.remaining_ms = MEASURE_MS,
                   !.current_max = 0,
                   !.timer = TRUE,
                   !.buttons[channel] = FALSE,
                   !.last = "started",
                   !.measurements = @ + 1,
                   !.pushed = {},
                   !.ticks = 0]

\* line 159: the tracked maximum, or the last pushed value of the channel
measured_peak_NoFallback(current_max, current) == current_max
measured_peak(current_max, current) ==
    IF current_max > 0 THEN current_max ELSE Abs(current)

\* _finalize_measurement
finalize_measurement(d) ==
    IF d.active = None THEN d
    ELSE LET channel == d.active[1]
             peak == measured_peak(d.current_max, d.current_rms[channel])
         IN  [d EXCEPT !.timer = FALSE,
                       !.values[channel] = IF peak > 0 THEN Some(peak) ELSE None,
                       !.buttons[channel] = TRUE,
                       !.emitted = IF peak # 0
                                   THEN Append(@, <<channel, peak>>) ELSE @,
                       !.last = IF peak # 0 THEN "committed" ELSE "no_signal",
                       !.active = None,
                       !.remaining_ms = 0,
                       !.current_max = 0]

\* _on_measure_tick
on_measure_tick(d) ==
    IF d.active = None THEN [d EXCEPT !.timer = FALSE, !.last = "tick"]
    ELSE LET t == [d EXCEPT !.remaining_ms = Max(0, @ - TICK_MS),
                            !.ticks = @ + 1,
                            !.last = "tick"]
         IN  IF t.remaining_ms = 0 THEN finalize_measurement(t) ELSE t

\* closeEvent
close_event(d) ==
    [d EXCEPT !.timer = FALSE,
              !.active = None,
              !.remaining_ms = 0,
              !.current_max = 0,
              !.phase = "closed",
              !.last = "closed"]

\* no MVC dialog is open
MvcIdle == mvc = NewMvcDialog([c \in Channels |-> None])

(***************************************************************************)
(* gui/rom_dialog.py: the dialog that measures the range of motion         *)
(***************************************************************************)
\* the largest element of a non-empty set of integers
SetMax(S) == CHOOSE m \in S : \A x \in S : x <= m

Min(a, b) == IF a <= b THEN a ELSE b

\* ROMDialog.__init__ ; nops, ext_at, flex_at, since_ext and flex_window are
\* history: the number of operations so far, the operations at which the
\* extension and flexion values were registered (0: not since the last
\* reset), the angles seen from the extension click on, and that set at the
\* flexion click
NewRomDialog ==
    [current_angle |-> 0, stage |-> "extend",
     min_angle |-> None, max_angle |-> None,
     extension_angle |-> None, flexion_angle |-> None,
     btn_extension |-> TRUE, btn_flexion |-> FALSE,
     result |-> "open", last |-> "none",
     nops |-> 0, ext_at |-> 0, flex_at |-> 0,
     since_ext |-> {}, flex_window |-> {}]

\* set_current_angle(angle)
set_current_angle(d, angle) ==
    [d EXCEPT !.current_angle = angle,
              !.min_angle = IF d.stage = "extend"
                            THEN IF d.min_angle = None THEN Some(angle)
                                 ELSE Some(Min(d.min_angle[1], angle))
                            ELSE @,
              !.max_angle = IF d.stage = "flex"
                            THEN IF d.max_angle = None THEN Some(angle)
                                 ELSE Some(Max(d.max_angle[1], angle))
                            ELSE @,
              !.since_ext = IF d.ext_at > 0 THEN @ \cup {angle} ELSE @]

\* get_rom_value()
get_rom_value(d) ==
    IF d.extension_angle = None \/ d.flexion_angle = None THEN None
    ELSE LET diff == d.flexion_angle[1] - d.extension_angle[1]
         IN  Some(IF diff < 0 THEN -diff ELSE diff)

\* _capture_extension
capture_extension(d) ==
    LET m == IF d.min_angle = None THEN Some(d.current_angle) ELSE d.min_angle
    IN  [d EXCEPT !.min_angle = m,
                  !.extension_angle = m,
                  !.stage = "flex",
                  !.max_angle = Some(d.current_angle),
                  !.btn_extension = FALSE,
                  !.btn_flexion = TRUE,
                  !.last = "extension",
                  !.nops = @ + 1,
                  !.ext_at = d.nops + 1,
                  !.since_ext = {d.current_angle}]

\* _capture_flexion
capture_flexion(d) ==
    IF d.extension_angle = None
    THEN [d EXCEPT !.last = "flexion_refused", !.nops = @ + 1]
    ELSE LET m == IF d.max_angle = None THEN Some(d.current_angle)
                  ELSE d.max_angle
         IN  [d EXCEPT !.max_angle = m,
                       !.flexion_angle = m,
                       !.stage = "done",
                       !.btn_flexion = FALSE,
                       !.btn_extension = TRUE,
                       !.last = "flexion",
                       !.nops = @ + 1,
                       !.flex_at = d.nops + 1,
                       !.flex_window = d.since_ext]

\* _reset_measurement
reset_measurement(d) ==
    [d EXCEPT !.stage = "extend",
              !.min_angle = None, !.max_angle = None,
              !.extension_angle = None, !.flexion_angle = None,
              !.btn_extension = TRUE, !.btn_flexion = FALSE,
              !.last = "reset",
              !.nops = @ + 1,
              !.ext_at = 0, !.flex_at = 0,
              !.since_ext = {}, !.flex_window = {}]

\* accept: refused with a warning while a value is missing
rom_accept(d) ==
    IF d.extension_angle = None \/ d.flexion_angle = None
    THEN [d EXCEPT !.last = "accept_refused", !.nops = @ + 1]
    ELSE [d EXCEPT !.result = "accepted", !.last = "accepted",
                   !.nops = @ + 1]

\* no ROM dialog is open
RomIdle == rom = NewRomDialog

(***************************************************************************)
(* gui/calibration_dialog.py: manual and semi-automatic calibration        *)
(***************************************************************************)
MANUAL_TAB == 0
SEMIAUTO_TAB == 1

\* cfg.AUTO_CALIB_REFERENCE_EXT, cfg.AUTO_CALIB_REFERENCE_FLEX
AUTO_CALIB_REFERENCE_EXT == 0
AUTO_CALIB_REFERENCE_FLEX == 90
\* cfg.AUTO_CALIB_TOLERANCE_DEG
AUTO_CALIB_TOLERANCE_DEG == 2
\* frames_needed = max(1, int(cfg.AUTO_CALIB_STABILITY_FRAMES))
frames_needed == Max(1, StabilityFrames)

Zeros(n) == [i \in 1..n |-> 0]

SemiautoTargets(mode) ==
    IF mode = 1 THEN <<AUTO_CALIB_REFERENCE_EXT>>
    ELSE <<AUTO_CALIB_REFERENCE_EXT, AUTO_CALIB_REFERENCE_FLEX>>

\* CalibrationDialog.__init__ with cfg.CALIBRATION_POINTS = points; log is
\* history: for each of the last frames_needed processed frames the index of
\* the target it was good for, or -1
NewCalibrationDialog(points, mediapipe) ==
    [mediapipe_available |-> mediapipe,
     current_raw_angle |-> 0,
     manual_mode |-> points, manual_point1 |-> FALSE, manual_point2 |-> FALSE,
     semiauto_mode |-> points,
     targets |-> SemiautoTargets(points),
     captures |-> <<>>,
     stability |-> Zeros(points),
     current_target |-> 0,
     timer |-> FALSE, video_capture |-> "none", pose |-> FALSE,
     active |-> FALSE,
     btn_start |-> mediapipe, btn_stop |-> FALSE, btn_apply |-> FALSE,
     tab |-> MANUAL_TAB,
     result |-> "open", last |-> "none", log |-> <<>>]

\* _update_semiauto_targets, the radio button of mode being checked
update_semiauto_targets(d, mode) ==
    [d EXCEPT !.semiauto_mode = mode,
              !.targets = SemiautoTargets(mode),
              !.stability = Zeros(mode),
              !.current_target = 0,
              !.captures = <<>>,
              !.btn_apply = FALSE]

\* _semiauto_stop(reset_progress)
semiauto_stop(d, reset_progress) ==
    [d EXCEPT !.timer = FALSE,
              !.video_capture = "none",
              !.pose = FALSE,
              !.active = FALSE,
              !.btn_start = d.mediapipe_available,
              !.btn_stop = FALSE,
              !.captures = IF reset_progress THEN <<>> ELSE @,
              !.stability = IF reset_progress THEN Zeros(Len(d.targets))
                            ELSE @,
              !.btn_apply = IF reset_progress THEN FALSE
                            ELSE Len(d.captures) > 0]

\* _semiauto_start; camera_opens: cv2.VideoCapture(...).isOpened()
semiauto_start(d, camera_opens) ==
    IF ~d.mediapipe_available \/ d.targets = <<>> THEN d
    ELSE LET s == semiauto_stop(d, TRUE)
         IN  IF ~camera_opens THEN s
             ELSE [s EXCEPT !.video_capture = "open",
                            !.pose = TRUE,
                            !.timer = TRUE,
                            !.active = TRUE,
                            !.stability = Zeros(Len(d.targets)),
                            !.current_target = 0,
                            !.captures = <<>>,
                            !.btn_start = FALSE,
                            !.btn_stop = TRUE,
                            !.btn_apply = FALSE]

\* _semiauto_reset_stability
semiauto_reset_stability(d) ==
    IF 0 <= d.current_target /\ d.current_target < Len(d.stability)
    THEN [d EXCEPT !.stability[d.current_target + 1] = 0]
    ELSE d

\* _register_semiauto_capture(target, pose_angle); current_raw_angle is set in
\* __init__, so the branch for a missing IMU angle is not taken
register_semiauto_capture(d, target, pose_angle) ==
    LET c == [target |-> target, pose_angle |-> pose_angle,
              imu_angle |-> d.current_raw_angle]
        r == [d EXCEPT !.captures = Append(@, c),
                       !.current_target = @ + 1,
                       !.stability = Zeros(Len(d.targets))]
    IN  IF r.current_target >= Len(r.targets) THEN semiauto_stop(r, FALSE)
        ELSE r

\* the counter of the current target after a frame outside the tolerance
stability_on_miss_Keep(count) == count

stability_on_miss(count) == 0

\* _check_semiauto_target(pose_angle)
check_semiauto_target(d, pose_angle) ==
    IF ~d.active \/ d.current_target >= Len(d.targets) THEN d
    ELSE LET i == d.current_target + 1
             target == d.targets[i]
         IN  IF Abs(pose_angle - target) <= AUTO_CALIB_TOLERANCE_DEG
             THEN LET n == [d EXCEPT !.stability[i] = @ + 1]
                  IN  IF n.stability[i] >= frames_needed
                      THEN register_semiauto_capture(n, target, pose_angle)
                      ELSE n
             ELSE [d EXCEPT !.stability[i] = stability_on_miss(@)]

\* _semiauto_process_frame; frame.kind tells what the camera and the pose
\* estimator deliver on this tick
semiauto_process_frame(d, frame) ==
    CASE frame.kind = "camera_lost" -> semiauto_stop(d, FALSE)
      [] frame.kind = "no_frame" -> d
      [] frame.kind \in {"no_pose", "not_visible", "nan"} ->
            semiauto_reset_stability(d)
      [] OTHER -> check_semiauto_target(d, frame.angle)

\* _manual_finish: refused with a warning while a point is missing
manual_can_finish(d) ==
    d.manual_point1 /\ (d.manual_mode = 2 => d.manual_point2)

\* _semiauto_finalize / _finalize_calibration: accept()
finalize_calibration(d) ==
    [d EXCEPT !.result = "accepted", !.last = "accepted"]

\* no calibration dialog is open
CalIdle == cal = NewCalibrationDialog(2, FALSE)

DlgIdle == MvcIdle /\ RomIdle /\ CalIdle

GuiIdle == ConIdle /\ DlgIdle

(***************************************************************************)
(* Decoder specification: a stream is fed in arbitrary chunks              *)
(***************************************************************************)
DecInit ==
    /\ stream \in Streams
    /\ garbage = <<>>
    /\ fed = 0
    /\ chunked = FALSE
    /\ decoder = NewDecoder
    /\ returned = <<>>
    /\ noise_feeds = 0
    /\ CfgIdle
    /\ SerIdle
    /\ WinIdle
    /\ AngIdle
    /\ SesIdle /\ GuiIdle

\* one call of feed with the next n bytes of the stream
FeedBytes(n) ==
    /\ n >= 1
    /\ n <= Len(stream) - fed
    /\ LET res == feed(decoder, SubSeq(stream, fed + 1, fed + n))
       IN /\ decoder' = [res EXCEPT !.frames = <<>>]
          /\ returned' = returned \o res.frames
    /\ fed' = fed + n
    /\ chunked' = (fed > 0)
    /\ UNCHANGED <<stream, garbage, noise_feeds>>

\* the serial data arrives in pieces of any size
Feed ==
    /\ \E n \in (1..MaxChunk) \cup {Len(stream) - fed} : FeedBytes(n)
    /\ UNCHANGED <<cfgVars, serVars, winVars, angVars, sesVars, guiVars>>

DecNext == Feed

SpecDecoder == DecInit /\ [][DecNext]_vars

(***************************************************************************)
(* Garbage specification: a fresh decoder is fed, in one call, one valid   *)
(* frame preceded by garbage                                               *)
(***************************************************************************)
GarbageInit ==
    /\ garbage \in Garbage
    /\ \E f \in ValidFrames : stream = garbage \o f
    /\ fed = 0
    /\ chunked = FALSE
    /\ decoder = NewDecoder
    /\ returned = <<>>
    /\ noise_feeds = 0
    /\ CfgIdle
    /\ SerIdle
    /\ WinIdle
    /\ AngIdle
    /\ SesIdle /\ GuiIdle

FeedWhole ==
    /\ fed = 0
    /\ FeedBytes(Len(stream))
    /\ UNCHANGED <<cfgVars, serVars, winVars, angVars, sesVars, guiVars>>

GarbageNext == FeedWhole

SpecGarbage == GarbageInit /\ [][GarbageNext]_vars

(***************************************************************************)
(* Noise specification: one decoder is fed, call after call, line noise,   *)
(* frame headers with nothing behind them, and pieces of frames            *)
(***************************************************************************)
NoiseChunks ==
    {<<0>>,
     <<0, 0, 0, 0, 0, 0, 0, 0>>,
     <<0, 0, 0, 0, 0, 0, 0, 165>>,
     <<90, 2, 0, 0, 0, 0, 0, 0>>,
     <<165, 90, 1, 0, 0, 0, 0, 0>>,
     <<165, 90, 2, 0, 0, 0, 0, 0>>,
     <<165, 90, 9, 165, 90, 9, 0, 0>>,
     TakeFirst(ValidIMU, Len(ValidIMU) - 1),
     ValidEMG}

NoiseInit ==
    /\ stream = <<>>
    /\ garbage = <<>>
    /\ fed = 0
    /\ chunked = FALSE
    /\ decoder = NewDecoder
    /\ returned = <<>>
    /\ noise_feeds = 0
    /\ CfgIdle
    /\ SerIdle
    /\ WinIdle
    /\ AngIdle
    /\ SesIdle /\ GuiIdle

\* one more call of feed on the same decoder
FeedNoise ==
    /\ noise_feeds < MaxFeeds
    /\ \E data \in NoiseChunks :
          LET res == feed(decoder, data)
          IN  /\ decoder' = [res EXCEPT !.frames = <<>>]
              /\ returned' = returned \o res.frames
              /\ stream' = stream \o data
              /\ fed' = fed + Len(data)
    /\ chunked' = (fed > 0)
    /\ noise_feeds' = noise_feeds + 1
    /\ UNCHANGED garbage
    /\ UNCHANGED <<cfgVars, serVars, winVars, angVars, sesVars, guiVars>>

NoiseNext == FeedNoise

SpecNoise == NoiseInit /\ [][NoiseNext]_vars

(***************************************************************************)
(* Configuration specification: calls on the configuration store, and      *)
(* files changed from outside the program                                  *)
(***************************************************************************)
CfgInit == CfgIdle /\ DecIdle /\ SerIdle /\ WinIdle /\ AngIdle /\ SesIdle /\ GuiIdle

\* load_settings()
LoadSettings ==
    /\ ops < MaxOps
    /\ LET r == load_settings(disk)
       IN IF r.raised
          THEN UNCHANGED <<runtime_settings, module_globals>>
          ELSE /\ runtime_settings' = r.settings
               /\ module_globals' = apply_to_module(r.settings)
    /\ last' = Call("load", load_settings(disk).raised, <<>>, FALSE)
    /\ ops' = ops + 1
    /\ UNCHANGED disk
    /\ UNCHANGED <<decVars, serVars, winVars, angVars, sesVars, guiVars>>

\* update_settings(new_values, persist)
UpdateSettings ==
    /\ ops < MaxOps
    /\ \E new_values \in Batches, persist \in BOOLEAN :
          LET c == coerce_batch(runtime_settings, new_values, 1)
              d == compute_derived(c.settings)
          IN /\ IF c.raised
                THEN /\ runtime_settings'
                          = SettingsAfterError(runtime_settings, c.settings)
                     /\ UNCHANGED <<module_globals, disk>>
                ELSE IF d.raised
                THEN UNCHANGED <<runtime_settings, module_globals, disk>>
                ELSE /\ runtime_settings' = d.settings
                     /\ module_globals' = apply_to_module(d.settings)
                     /\ disk' = IF persist
                                THEN [disk EXCEPT ![config_path(d.settings)] =
                                         JsonFile(Persistable(d.settings), "program")]
                                ELSE disk
             /\ last' = Call("update", c.raised \/ d.raised, new_values, persist)
    /\ ops' = ops + 1
    /\ UNCHANGED <<decVars, serVars, winVars, angVars, sesVars, guiVars>>

\* reset_to_defaults(persist)
ResetToDefaults ==
    /\ ops < MaxOps
    /\ \E persist \in BOOLEAN :
          LET defaults == compute_derived(normalize_settings(DEFAULT_SETTINGS)).settings
          IN /\ runtime_settings' = defaults
             /\ module_globals' = apply_to_module(defaults)
             /\ disk' = IF persist
                        THEN [disk EXCEPT ![config_path(defaults)] =
                                 JsonFile(Persistable(defaults), "program")]
                        ELSE disk
             /\ last' = Call("reset", FALSE, <<>>, persist)
    /\ ops' = ops + 1
    /\ UNCHANGED <<decVars, serVars, winVars, angVars, sesVars, guiVars>>

\* somebody replaces, damages or removes a configuration file
ExternalEdit ==
    /\ ops < MaxOps
    /\ \E content \in ForeignFiles :
          disk' = [disk EXCEPT ![config_path(DEFAULT_SETTINGS)] = content]
    /\ last' = Call("edit", FALSE, <<>>, FALSE)
    /\ ops' = ops + 1
    /\ UNCHANGED <<runtime_settings, module_globals>>
    /\ UNCHANGED <<decVars, serVars, winVars, angVars, sesVars, guiVars>>

CfgNext == LoadSettings \/ UpdateSettings \/ ResetToDefaults \/ ExternalEdit

SpecSettings == CfgInit /\ [][CfgNext]_vars

(***************************************************************************)
(* Serial worker: SerialReaderThread.run, one action per step of the       *)
(* thread, and stop() called from the thread that owns the worker          *)
(***************************************************************************)
\* a signal emitted by the worker
Event(sig, connected, msg, frame) ==
    [sig |-> sig, connected |-> connected, msg |-> msg, frame |-> frame]

StatusEvent(connected, msg) == Event("connection_status", connected, msg, NoFrame)

FrameEvent(frame) == Event("frame_received", FALSE, "", frame)

\* for frame in frames: self.frame_received.emit(frame)
FrameEvents_Reversed(frames) ==
    [i \in 1..Len(frames) |-> FrameEvent(frames[Len(frames) + 1 - i])]
FrameEvents(frames) == [i \in 1..Len(frames) |-> FrameEvent(frames[i])]

\* the signals are queued to the thread of the receiving window
Emit(evs) ==
    /\ events' = events \o evs
    /\ ui_queue' = ui_queue \o evs

\* what the finally block of run emits
FinalEvents_Silent(opened) == <<>>
FinalEvents(opened) == <<StatusEvent(FALSE, "Desconectado")>>

\* what the finally block of run does to the connection
CloseIfOpen(conn) == IF conn = "open" THEN "closed" ELSE conn

\* the byte streams the device sends to a worker
SerialStreams ==
    {ValidEMG \o ValidIMU, BadEMG \o ValidEMG, <<0, 165>> \o ValidIMU}

\* self.running = True
RunBegin ==
    /\ th_pc = "started"
    /\ th_pc' = "opening"
    /\ running' = TRUE
    /\ UNCHANGED <<stop_requested, serial_conn, events, ui_queue>>
    /\ UNCHANGED <<decVars, cfgVars, winVars, angVars, sesVars, guiVars>>

\* serial.Serial(...) and the connected status, or SerialException
OpenPort ==
    /\ th_pc = "opening"
    /\ \E opened \in BOOLEAN :
          IF opened
          THEN /\ serial_conn' = "open"
               /\ Emit(<<StatusEvent(TRUE, "Conectado")>>)
               /\ th_pc' = "loop"
          ELSE /\ th_pc' = "except"
               /\ UNCHANGED <<serial_conn, events, ui_queue>>
    /\ UNCHANGED <<running, stop_requested>>
    /\ UNCHANGED <<decVars, cfgVars, winVars, angVars, sesVars, guiVars>>

\* while self.running: the flag is found cleared
LoopExit ==
    /\ th_pc = "loop"
    /\ ~running
    /\ th_pc' = "finally"
    /\ UNCHANGED <<running, stop_requested, serial_conn, events, ui_queue>>
    /\ UNCHANGED <<decVars, cfgVars, winVars, angVars, sesVars, guiVars>>

\* one pass of the loop with bytes waiting: read, feed, emit each frame
ReadAndEmit ==
    /\ th_pc = "loop"
    /\ running
    /\ \E n \in {8 * MaxChunk, Len(stream) - fed} : FeedBytes(n)
    /\ Emit(FrameEvents(SubSeq(returned', Len(returned) + 1, Len(returned'))))
    /\ UNCHANGED <<th_pc, running, stop_requested, serial_conn>>
    /\ UNCHANGED <<cfgVars, winVars, angVars, sesVars, guiVars>>

\* in_waiting, read or feed raises
ReadRaises ==
    /\ th_pc = "loop"
    /\ running
    /\ th_pc' = "except"
    /\ UNCHANGED <<running, stop_requested, serial_conn, events, ui_queue>>
    /\ UNCHANGED <<decVars, cfgVars, winVars, angVars, sesVars, guiVars>>

\* except SerialException / except Exception
HandleException ==
    /\ th_pc = "except"
    /\ Emit(<<StatusEvent(FALSE, "Error")>>)
    /\ th_pc' = "finally"
    /\ UNCHANGED <<running, stop_requested, serial_conn>>
    /\ UNCHANGED <<decVars, cfgVars, winVars, angVars, sesVars, guiVars>>

\* finally: close the connection, emit the disconnected status, return
Finally ==
    /\ th_pc = "finally"
    /\ serial_conn' = CloseIfOpen(serial_conn)
    /\ Emit(FinalEvents(serial_conn = "open"))
    /\ th_pc' = "done"
    /\ UNCHANGED <<running, stop_requested>>
    /\ UNCHANGED <<decVars, cfgVars, winVars, angVars, sesVars, guiVars>>

\* stop(), called by the owner of the worker
Stop ==
    /\ th_pc # "none"
    /\ ~stop_requested
    /\ running' = FALSE
    /\ stop_requested' = TRUE
    /\ UNCHANGED <<th_pc, serial_conn, events, ui_queue>>
    /\ UNCHANGED <<decVars, cfgVars, winVars, angVars, sesVars, guiVars>>

Worker ==
    \/ RunBegin
    \/ OpenPort
    \/ LoopExit
    \/ ReadAndEmit
    \/ ReadRaises
    \/ HandleException
    \/ Finally

\* a worker was constructed and start() was called on it
SerInit ==
    /\ stream \in SerialStreams
    /\ garbage = <<>>
    /\ fed = 0
    /\ chunked = FALSE
    /\ decoder = NewDecoder
    /\ returned = <<>>
    /\ noise_feeds = 0
    /\ th_pc = "started"
    /\ running = FALSE
    /\ stop_requested = FALSE
    /\ serial_conn = "none"
    /\ events = <<>>
    /\ ui_queue = <<>>
    /\ CfgIdle
    /\ WinIdle
    /\ AngIdle
    /\ SesIdle /\ GuiIdle

SerNext == Worker \/ Stop

SpecSerial == SerInit /\ [][SerNext]_vars

\* the worker thread is scheduled: a step of run that can be taken is taken.
\* Nothing obliges bytes to arrive or a read to raise.
WorkerFairness ==
    /\ WF_vars(RunBegin)
    /\ WF_vars(OpenPort)
    /\ WF_vars(LoopExit)
    /\ WF_vars(HandleException)
    /\ WF_vars(Finally)

SpecSerialLive == SerInit /\ [][SerNext]_vars /\ WorkerFairness

(***************************************************************************)
(* Hand-off: the worker of a real-time analysis window and the two slots   *)
(* of the window, run by the UI thread for each queued signal              *)
(***************************************************************************)
\* RealtimeAnalysisWindow._on_connection_status
RtOnConnectionStatus ==
    /\ ui_queue # <<>>
    /\ Head(ui_queue).sig = "connection_status"
    /\ ui_queue' = Tail(ui_queue)
    /\ is_connected' = Head(ui_queue).connected
    /\ UNCHANGED <<serial_thread, btn_toggle_connection, recording_state,
                   session_recorder, session_dirs, pending_countdown,
                   countdown_timer, btn_record, btn_pause, btn_stop,
                   calibrated,
                   raw_angle_stored, patient_id, t0_emg, t0_imu, ui_waiting,
                   ui_last, processed, connects>>
    /\ UNCHANGED <<th_pc, running, stop_requested, serial_conn, events>>
    /\ UNCHANGED <<decVars, cfgVars, angVars, sesVars, guiVars>>

\* RealtimeAnalysisWindow._on_frame_received
RtOnFrameReceived ==
    /\ ui_queue # <<>>
    /\ Head(ui_queue).sig = "frame_received"
    /\ ui_queue' = Tail(ui_queue)
    /\ LET frame == Head(ui_queue).frame
       IN /\ t0_emg' = IF frame.type = "EMG" /\ t0_emg = <<>>
                       THEN <<frame.timestamp_us>> ELSE t0_emg
          /\ t0_imu' = IF frame.type = "IMU" /\ t0_imu = <<>>
                       THEN <<frame.timestamp_us>> ELSE t0_imu
          /\ processed' = Append(processed, frame)
    /\ UNCHANGED <<serial_thread, is_connected, btn_toggle_connection,
                   recording_state, session_recorder, session_dirs,
                   pending_countdown, countdown_timer, btn_record, btn_pause,
                   btn_stop, calibrated,
                   raw_angle_stored, patient_id, ui_waiting, ui_last,
                   connects>>
    /\ UNCHANGED <<th_pc, running, stop_requested, serial_conn, events>>
    /\ UNCHANGED <<decVars, cfgVars, angVars, sesVars, guiVars>>

HandoffNext == Worker \/ Stop \/ RtOnConnectionStatus \/ RtOnFrameReceived

SpecHandoff == SerInit /\ [][HandoffNext]_vars

(***************************************************************************)
(* Angle specification: a window builds its AngleCalculator, feeds it the  *)
(* IMU frames and applies the calibrations its dialog returns              *)
(***************************************************************************)
\* gx of a frame, in degrees per second
GyroRates == {-2250, -500, 0, 500}

\* accelerometer angles that differ from the integrated angle by d degrees
AccelDeviations == {-50, 0, 50}

\* raw angles captured in the calibration dialog, and the reference angles
\* of its two spin boxes (-30..30 and 30..150)
RawPoints == {10, 100}
RefPoints1 == {0, 20, 30}
RefPoints2 == {30, 90}

\* RealtimeAnalysisWindow.__init__: AngleCalculator(), then line 92 reads
\* last_uncalibrated_angle
ConstructWindow ==
    /\ angle_ops < MaxCalls
    /\ calc' = NewCalculator
    /\ angle_last' = AngleCall("construct", "", ReadRaw(NewCalculator), <<>>, <<>>)
    /\ angle_ops' = angle_ops + 1
    /\ UNCHANGED <<decVars, cfgVars, serVars, winVars, sesVars, guiVars>>

\* _on_frame_received for an IMU frame: update, then the read of
\* last_uncalibrated_angle
ImuFrame ==
    /\ angle_ops < MaxCalls
    /\ \E gx \in GyroRates, d \in AccelDeviations :
          LET ts == 20000 * (angle_ops + 1)
              c == update(calc, RAdd(angle_gyro(calc, gx, ts), RInt(d)), gx, ts)
          IN /\ calc' = c
             /\ angle_last' = AngleCall("update", "", ReadRaw(c),
                                        <<calibrated_angle(c)>>, <<>>)
    /\ angle_ops' = angle_ops + 1
    /\ UNCHANGED <<decVars, cfgVars, serVars, winVars, sesVars, guiVars>>

\* _open_calibration after the dialog was accepted in mode 1: the captured
\* raw angle is stored in the calculator, then calibrate_one_point
ApplyOnePoint ==
    /\ angle_ops < MaxCalls
    /\ \E raw1 \in RawPoints, ref1 \in RefPoints1 :
          LET c == calibrate_one_point(
                      [calc EXCEPT !.angle = RInt(raw1),
                                   !.last_uncalibrated_angle = <<RInt(raw1)>>],
                      RInt(ref1))
          IN /\ calc' = c
             /\ angle_last' = AngleCall("calibrate_one_point", "", ReadRaw(c),
                                        <<>>, <<raw1, ref1>>)
    /\ angle_ops' = angle_ops + 1
    /\ UNCHANGED <<decVars, cfgVars, serVars, winVars, sesVars, guiVars>>

\* _open_calibration after the dialog was accepted in mode 2
ApplyTwoPoints ==
    /\ angle_ops < MaxCalls
    /\ \E raw1 \in RawPoints, raw2 \in RawPoints, ref1 \in RefPoints1,
          ref2 \in RefPoints2 :
          /\ raw1 # raw2
          /\ LET r == calibrate_two_points(calc, RInt(raw1), RInt(ref1),
                                           RInt(raw2), RInt(ref2))
             IN /\ calc' = r.calc
                /\ angle_last' =
                      AngleCall("calibrate_two_points", r.raised,
                                IF r.raised = "" THEN ReadRaw(r.calc) ELSE "",
                                <<>>, <<raw1, ref1, raw2, ref2>>)
    /\ angle_ops' = angle_ops + 1
    /\ UNCHANGED <<decVars, cfgVars, serVars, winVars, sesVars, guiVars>>

\* _clear_buffers: reset, then the read of last_uncalibrated_angle
ClearBuffers ==
    /\ angle_ops < MaxCalls
    /\ calc' = calc_reset(calc)
    /\ angle_last' = AngleCall("reset", "", ReadRaw(calc_reset(calc)), <<>>, <<>>)
    /\ angle_ops' = angle_ops + 1
    /\ UNCHANGED <<decVars, cfgVars, serVars, winVars, sesVars, guiVars>>

AngInit == DecIdle /\ CfgIdle /\ SerIdle /\ WinIdle /\ AngIdle /\ SesIdle /\ GuiIdle

AngNext ==
    \/ ConstructWindow
    \/ ImuFrame
    \/ ApplyOnePoint
    \/ ApplyTwoPoints
    \/ ClearBuffers

SpecAngle == AngInit /\ [][AngNext]_vars

(***************************************************************************)
(* Storage specification: a recorder takes samples and finalizes; files   *)
(* of the directory may be lost or damaged; the directory is loaded        *)
(***************************************************************************)
SeqNumbers == {7, 65535}
DamageKinds == {"absent", "corrupt", "other_json"}

\* record_emg
RecordEmg ==
    /\ ses_phase = "recording"
    /\ Len(emg_records) + Len(imu_records) < MaxSamples
    /\ \E seq \in SeqNumbers : emg_records' = Append(emg_records, seq)
    /\ UNCHANGED <<h5py, imu_records, session_files, ses_phase, loaded>>
    /\ UNCHANGED <<decVars, cfgVars, serVars, winVars, angVars, guiVars>>

\* record_imu
RecordImu ==
    /\ ses_phase = "recording"
    /\ Len(emg_records) + Len(imu_records) < MaxSamples
    /\ \E seq \in SeqNumbers : imu_records' = Append(imu_records, seq)
    /\ UNCHANGED <<h5py, emg_records, session_files, ses_phase, loaded>>
    /\ UNCHANGED <<decVars, cfgVars, serVars, winVars, angVars, guiVars>>

Finalize ==
    /\ ses_phase = "recording"
    /\ session_files' = finalize(session_files, emg_records, imu_records)
    /\ ses_phase' = "finalized"
    /\ UNCHANGED <<h5py, emg_records, imu_records, loaded>>
    /\ UNCHANGED <<decVars, cfgVars, serVars, winVars, angVars, guiVars>>

\* a file of the finalized directory is lost, or its content is replaced by
\* bytes that are not of its format, or (a JSON file) by a JSON list
FileDamaged ==
    /\ ses_phase = "finalized"
    /\ \E n \in FileNames \ {"notes.txt"}, k \in DamageKinds :
        /\ k = "other_json" => n \in JsonFiles
        /\ k = "absent" => session_files[n] # NoFile
        /\ session_files' =
             [session_files EXCEPT ![n] = File(k, {}, PyNone, PyNone)]
    /\ ses_phase' = "damaged"
    /\ UNCHANGED <<h5py, emg_records, imu_records, loaded>>
    /\ UNCHANGED <<decVars, cfgVars, serVars, winVars, angVars, guiVars>>

\* discover_patients(), SessionDataset(...), has_emg(), has_imu()
LoadSession ==
    /\ ses_phase \in {"finalized", "damaged"}
    /\ loaded' = load_session(session_files)
    /\ UNCHANGED <<h5py, emg_records, imu_records, session_files, ses_phase>>
    /\ UNCHANGED <<decVars, cfgVars, serVars, winVars, angVars, guiVars>>

\* a recorder has been constructed, with or without h5py installed; the
\* patient may have a profile
SesInit ==
    /\ h5py \in BOOLEAN
    /\ emg_records = <<>>
    /\ imu_records = <<>>
    /\ \E p \in {NoFile, JsonDict} :
        session_files = [n \in FileNames |->
                            IF n = "profile.json" THEN p ELSE NoFile]
    /\ ses_phase = "recording"
    /\ loaded = NotLoaded
    /\ DecIdle /\ CfgIdle /\ SerIdle /\ WinIdle /\ AngIdle /\ GuiIdle

SesNext == RecordEmg \/ RecordImu \/ Finalize \/ FileDamaged \/ LoadSession
SpecSession == SesInit /\ [][SesNext]_vars

(***************************************************************************)
(* Connection specification: the connect / disconnect / clear / close     *)
(* handlers of an acquisition window, and every worker it started          *)
(***************************************************************************)
conRest == <<decVars, cfgVars, serVars, winVars, angVars, sesVars, dlgVars>>

\* __init__ returned: RealtimeAnalysisWindow.__init__ reads
\* last_uncalibrated_angle (line 92) and raises without it
WindowShown == win_kind = "session" \/ (win_kind = "realtime" /\ win_raw_attr)

\* the UI thread can run a handler of the window
UiFree == WindowShown /\ link.waiting = "" /\ ~link.closed

\* connection_status.emit, queued to the window
EmitStatus(connected, msg) ==
    win_queue' = Append(win_queue, StatusEvent(connected, msg))

\* run: self.running = True
ThRunBegin(i) ==
    /\ threads[i].pc = "started"
    /\ threads' = [threads EXCEPT ![i] = Thread("opening", TRUE)]
    /\ UNCHANGED <<win_kind, win_raw_attr, link, win_queue, win_last, conRest>>

\* run: serial.Serial(...) and the connected status, or an exception
ThOpenPort(i) ==
    /\ threads[i].pc = "opening"
    /\ \E opened \in BOOLEAN :
          IF opened
          THEN /\ threads' = [threads EXCEPT ![i].pc = "loop"]
               /\ EmitStatus(TRUE, "Conectado")
          ELSE /\ threads' = [threads EXCEPT ![i].pc = "except"]
               /\ UNCHANGED win_queue
    /\ UNCHANGED <<win_kind, win_raw_attr, link, win_last, conRest>>

\* run: while self.running finds the flag cleared
ThLoopExit(i) ==
    /\ threads[i].pc = "loop"
    /\ ~threads[i].running
    /\ threads' = [threads EXCEPT ![i].pc = "finally"]
    /\ UNCHANGED <<win_kind, win_raw_attr, link, win_queue, win_last, conRest>>

\* run: in_waiting, read or feed raises
ThReadRaises(i) ==
    /\ threads[i].pc = "loop"
    /\ threads[i].running
    /\ threads' = [threads EXCEPT ![i].pc = "except"]
    /\ UNCHANGED <<win_kind, win_raw_attr, link, win_queue, win_last, conRest>>

\* run: the except blocks
ThHandleException(i) ==
    /\ threads[i].pc = "except"
    /\ threads' = [threads EXCEPT ![i].pc = "finally"]
    /\ EmitStatus(FALSE, "Error")
    /\ UNCHANGED <<win_kind, win_raw_attr, link, win_last, conRest>>

\* run: the finally block, then run returns
ThFinally(i) ==
    /\ threads[i].pc = "finally"
    /\ threads' = [threads EXCEPT ![i].pc = "done"]
    /\ EmitStatus(FALSE, "Desconectado")
    /\ UNCHANGED <<win_kind, win_raw_attr, link, win_last, conRest>>

\* _toggle_connection while not connected (_connect_serial): a new
\* SerialReaderThread is started; only the session window disables the
\* button until a status arrives
WinConnect ==
    /\ UiFree
    /\ link.button
    /\ ~link.is_connected
    /\ \E i \in 1..MaxThreads :
          /\ threads[i] = NoThread
          /\ \A j \in 1..(i - 1) : threads[j] # NoThread
          /\ threads' = [threads EXCEPT ![i] = Thread("started", FALSE)]
          /\ link' = [link EXCEPT !.serial_thread = i,
                                  !.button = (win_kind = "realtime")]
    /\ win_last' = WinOp("start", SomeLive(threads))
    /\ UNCHANGED <<win_kind, win_raw_attr, win_queue, conRest>>

\* what the handler does once the worker is dealt with: serial_thread =
\* None, is_connected = False (closeEvent: the window closes)
after_wait(op) ==
    /\ link' = IF op = "close"
               THEN [link EXCEPT !.waiting = "", !.closed = TRUE]
               ELSE [link EXCEPT !.waiting = "", !.serial_thread = 0,
                                 !.is_connected = FALSE]
    /\ win_last' = WinOp(op, SomeLive(threads))

\* stop() on the worker of the window, then wait
stop_and_wait(op) ==
    /\ threads' = [threads EXCEPT ![link.serial_thread].running = FALSE]
    /\ link' = [link EXCEPT !.waiting = op]
    /\ UNCHANGED win_last

\* _toggle_connection while connected (_disconnect_serial), up to the wait
WinDisconnect ==
    /\ UiFree
    /\ link.button
    /\ link.is_connected
    /\ IF link.serial_thread # 0
       THEN stop_and_wait("disconnect")
       ELSE after_wait("disconnect") /\ UNCHANGED threads
    /\ UNCHANGED <<win_kind, win_raw_attr, win_queue, conRest>>

\* closeEvent, up to the wait; the realtime window asks isRunning() first
WinClose ==
    /\ UiFree
    /\ IF /\ link.serial_thread # 0
          /\ win_kind = "realtime" => Live(threads[link.serial_thread])
       THEN stop_and_wait("close")
       ELSE after_wait("close") /\ UNCHANGED threads
    /\ UNCHANGED <<win_kind, win_raw_attr, win_queue, conRest>>

\* wait() returns: the worker has returned, or (session window only, whose
\* waits are wait(2000) and wait(1500)) the time is up
WinWaitReturns ==
    /\ link.waiting # ""
    /\ \/ ~Live(threads[link.serial_thread])
       \/ win_kind = "session"
    /\ after_wait(link.waiting)
    /\ UNCHANGED <<win_kind, win_raw_attr, threads, win_queue, conRest>>

\* _on_connection_status for the next queued status
WinOnConnectionStatus ==
    /\ UiFree
    /\ win_queue # <<>>
    /\ win_queue' = Tail(win_queue)
    /\ link' = [link EXCEPT !.is_connected = Head(win_queue).connected,
                            !.button = TRUE]
    /\ UNCHANGED <<win_kind, win_raw_attr, threads, win_last, conRest>>

\* RealtimeAnalysisWindow._clear_buffers from its button: the buffers are
\* filled and the processors reset; the worker is not looked at
WinClearBuffers ==
    /\ UiFree
    /\ win_kind = "realtime"
    /\ win_last' = WinOp("clear_buffers", SomeLive(threads))
    /\ UNCHANGED <<win_kind, win_raw_attr, threads, link, win_queue, conRest>>

\* a window of either kind; the calculator of the realtime window may or
\* may not expose last_uncalibrated_angle
ConInit ==
    /\ win_kind \in {"session", "realtime"}
    /\ win_raw_attr \in {w \in BOOLEAN : w => win_kind = "realtime"}
    /\ threads = [i \in 1..MaxThreads |-> NoThread]
    /\ link = Win(0, FALSE, TRUE, "", FALSE)
    /\ win_queue = <<>>
    /\ win_last = WinOp("none", FALSE)
    /\ DecIdle /\ CfgIdle /\ SerIdle /\ WinIdle /\ AngIdle /\ SesIdle
    /\ DlgIdle

ConNext ==
    \/ \E i \in 1..MaxThreads :
          \/ ThRunBegin(i)
          \/ ThOpenPort(i)
          \/ ThLoopExit(i)
          \/ ThReadRaises(i)
          \/ ThHandleException(i)
          \/ ThFinally(i)
    \/ WinConnect
    \/ WinDisconnect
    \/ WinClose
    \/ WinWaitReturns
    \/ WinOnConnectionStatus
    \/ WinClearBuffers

SpecConnection == ConInit /\ [][ConNext]_vars

(***************************************************************************)
(* MVC specification: the dialog is open; RMS values are pushed, channel   *)
(* buttons are pressed, the timer ticks, the dialog is closed or dismissed *)
(***************************************************************************)
RmsValues == {-2, 0, 1}
mvcRest == <<decVars, cfgVars, serVars, winVars, angVars, sesVars, conVars,
            rom, cal>>

\* push_rms of the window that opened the dialog, while it is visible
MvcPush ==
    /\ mvc.phase = "open"
    /\ \E ch0, ch1 \in RmsValues : mvc' = set_current_rms(mvc, ch0, ch1)
    /\ UNCHANGED mvcRest

\* the button of a channel is pressed
MvcStartClicked ==
    /\ mvc.phase = "open"
    /\ mvc.measurements < MaxMeasures
    /\ \E channel \in Channels :
          /\ mvc.buttons[channel]
          /\ mvc' = start_measurement(mvc, channel)
    /\ UNCHANGED mvcRest

\* the timer of the dialog fires
MvcTick ==
    /\ mvc.timer
    /\ mvc' = on_measure_tick(mvc)
    /\ UNCHANGED mvcRest

\* the Cerrar button or the close button of the window: close()
MvcClose ==
    /\ mvc.phase = "open"
    /\ mvc' = close_event(mvc)
    /\ UNCHANGED mvcRest

\* the Escape key: QDialog.reject() hides the dialog and ends exec();
\* closeEvent is not run
MvcReject ==
    /\ mvc.phase = "open"
    /\ mvc' = [mvc EXCEPT !.phase = "rejected", !.last = "rejected"]
    /\ UNCHANGED mvcRest

\* the dialog was opened with the MVC values of the window
MvcInit ==
    /\ \E v \in {None, Some(5)} :
          mvc = NewMvcDialog([c \in Channels |-> IF c = 0 THEN v ELSE None])
    /\ DecIdle /\ CfgIdle /\ SerIdle /\ WinIdle /\ AngIdle /\ SesIdle
    /\ ConIdle /\ RomIdle /\ CalIdle

MvcNext == MvcPush \/ MvcStartClicked \/ MvcTick \/ MvcClose \/ MvcReject

SpecMvc == MvcInit /\ [][MvcNext]_vars

(***************************************************************************)
(* ROM specification: the window opens the dialog with its current angle,  *)
(* pushes the angle every 100 ms while the dialog is visible, and the user *)
(* presses the buttons that are enabled                                    *)
(***************************************************************************)
\* the angles the window pushes
Angles == {-1, 0, 2}

romRest == <<decVars, cfgVars, serVars, winVars, angVars, sesVars, conVars,
            mvc, cal>>

RomOpen == rom.result = "open" /\ rom.nops < MaxRomOps

\* push_angle: the timer of the window
RomPush ==
    /\ rom.result = "open"
    /\ \E a \in Angles : rom' = set_current_angle(rom, a)
    /\ UNCHANGED romRest

\* btn_extension.clicked
RomExtensionClicked ==
    /\ RomOpen
    /\ rom.btn_extension
    /\ rom' = capture_extension(rom)
    /\ UNCHANGED romRest

\* btn_flexion.clicked
RomFlexionClicked ==
    /\ RomOpen
    /\ rom.btn_flexion
    /\ rom' = capture_flexion(rom)
    /\ UNCHANGED romRest

\* btn_reset.clicked
RomResetClicked ==
    /\ RomOpen
    /\ rom' = reset_measurement(rom)
    /\ UNCHANGED romRest

\* button_box.accepted
RomAccept ==
    /\ RomOpen
    /\ rom' = rom_accept(rom)
    /\ UNCHANGED romRest

\* button_box.rejected, Escape, the close button of the window
RomReject ==
    /\ rom.result = "open"
    /\ rom' = [rom EXCEPT !.result = "rejected", !.last = "rejected"]
    /\ UNCHANGED romRest

\* dialog = ROMDialog(self); dialog.set_current_angle(self.current_angle)
RomInit ==
    /\ \E a \in Angles : rom = set_current_angle(NewRomDialog, a)
    /\ DecIdle /\ CfgIdle /\ SerIdle /\ WinIdle /\ AngIdle /\ SesIdle
    /\ ConIdle /\ MvcIdle /\ CalIdle

RomNext ==
    \/ RomPush \/ RomExtensionClicked \/ RomFlexionClicked
    \/ RomResetClicked \/ RomAccept \/ RomReject

SpecRom == RomInit /\ [][RomNext]_vars

(***************************************************************************)
(* Calibration specification: the dialog is opened by a window, the user   *)
(* presses the enabled buttons of the visible tab, and the capture timer   *)
(* processes one camera frame per tick for as long as it is active         *)
(***************************************************************************)
\* the angles the pose estimator yields, and the raw IMU angles pushed
PoseAngles == {0, 2, 3, 90}
ImuAngles == {0, 7}

Frames ==
    [kind : {"camera_lost", "no_frame", "no_pose", "not_visible", "nan"},
     angle : {0}]
    \cup [kind : {"angle"}, angle : PoseAngles]

calRest == <<decVars, cfgVars, serVars, winVars, angVars, sesVars, conVars,
            mvc, rom>>

CalVisible == cal.result = "open"

\* the index of the current target if the frame shows a detected, visible,
\* valid pose angle within tolerance of it, -1 otherwise
GoodFor(d, frame) ==
    IF /\ frame.kind = "angle"
       /\ d.current_target < Len(d.targets)
       /\ Abs(frame.angle - d.targets[d.current_target + 1])
             <= AUTO_CALIB_TOLERANCE_DEG
    THEN d.current_target ELSE -1

LastN(s, n) == IF Len(s) <= n THEN s ELSE SubSeq(s, Len(s) - n + 1, Len(s))

\* push_angle of the window: dialog.set_current_angle
CalPush ==
    /\ CalVisible
    /\ \E a \in ImuAngles :
          cal' = [cal EXCEPT !.current_raw_angle = a]
    /\ UNCHANGED calRest

\* tab_widget.currentChanged -> _on_tab_changed(index)
CalTabChanged ==
    /\ CalVisible
    /\ \E index \in {MANUAL_TAB, SEMIAUTO_TAB} :
          /\ index # cal.tab
          /\ cal' = IF index # SEMIAUTO_TAB
                    THEN [semiauto_stop(cal, FALSE) EXCEPT
                             !.tab = index, !.last = "tab_changed"]
                    ELSE [cal EXCEPT !.tab = index, !.last = "tab_shown"]
    /\ UNCHANGED calRest

\* the other radio button is chosen: toggled fires for both buttons
CalModeChanged ==
    /\ CalVisible
    /\ cal.tab = SEMIAUTO_TAB
    /\ LET mode == 3 - cal.semiauto_mode
           once == semiauto_stop(update_semiauto_targets(cal, mode), TRUE)
           twice == semiauto_stop(update_semiauto_targets(once, mode), TRUE)
       IN  cal' = [twice EXCEPT !.last = "mode_changed"]
    /\ UNCHANGED calRest

\* btn_semiauto_start.clicked
CalStartClicked ==
    /\ CalVisible
    /\ cal.tab = SEMIAUTO_TAB
    /\ cal.btn_start
    /\ \E camera_opens \in BOOLEAN :
          cal' = [semiauto_start(cal, camera_opens) EXCEPT
                     !.last = IF camera_opens THEN "started" ELSE "no_camera"]
    /\ UNCHANGED calRest

\* btn_semiauto_stop.clicked
CalStopClicked ==
    /\ CalVisible
    /\ cal.tab = SEMIAUTO_TAB
    /\ cal.btn_stop
    /\ cal' = [semiauto_stop(cal, FALSE) EXCEPT !.last = "stopped"]
    /\ UNCHANGED calRest

\* _semiauto_timer.timeout: the timer is a child of the dialog and fires
\* whether or not the dialog is visible
CalFrame ==
    /\ cal.timer
    /\ \E frame \in Frames :
          cal' = [semiauto_process_frame(cal, frame) EXCEPT
                     !.last = IF frame.kind # "angle" THEN frame.kind
                              ELSE IF GoodFor(cal, frame) >= 0
                                   THEN "on_target" ELSE "off_target",
                     !.log = IF frame.kind \in {"camera_lost", "no_frame"}
                             THEN @
                             ELSE LastN(Append(@, GoodFor(cal, frame)),
                                        frames_needed)]
    /\ UNCHANGED calRest

\* btn_semiauto_apply.clicked -> _semiauto_finalize
CalApplyClicked ==
    /\ CalVisible
    /\ cal.tab = SEMIAUTO_TAB
    /\ cal.btn_apply
    /\ cal' = IF cal.captures = <<>>
              THEN [cal EXCEPT !.last = "nothing_to_apply"]
              ELSE finalize_calibration(cal)
    /\ UNCHANGED calRest

\* btn_manual_capture_p1.clicked, btn_manual_capture_p2.clicked
CalManualCapture ==
    /\ CalVisible
    /\ cal.tab = MANUAL_TAB
    /\ \/ cal' = [cal EXCEPT !.manual_point1 = TRUE, !.last = "point1"]
       \/ /\ cal.manual_mode = 2 /\ cal.manual_point1
          /\ cal' = [cal EXCEPT !.manual_point2 = TRUE, !.last = "point2"]
    /\ UNCHANGED calRest

\* btn_manual_finish.clicked -> _manual_finish
CalManualFinish ==
    /\ CalVisible
    /\ cal.tab = MANUAL_TAB
    /\ manual_can_finish(cal)
    /\ cal' = finalize_calibration(cal)
    /\ UNCHANGED calRest

\* the close button of the window: closeEvent
CalClose ==
    /\ CalVisible
    /\ cal' = [semiauto_stop(cal, FALSE) EXCEPT
                  !.result = "closed", !.last = "closed"]
    /\ UNCHANGED calRest

\* btn_close_dialog.clicked -> reject, and the Escape key: the dialog is
\* hidden, closeEvent is not called
CalReject ==
    /\ CalVisible
    /\ cal' = [cal EXCEPT !.result = "rejected", !.last = "rejected"]
    /\ UNCHANGED calRest

\* dialog = CalibrationDialog(self)
CalInit ==
    /\ \E points \in {1, 2}, mediapipe \in BOOLEAN :
          cal = NewCalibrationDialog(points, mediapipe)
    /\ DecIdle /\ CfgIdle /\ SerIdle /\ WinIdle /\ AngIdle /\ SesIdle
    /\ ConIdle /\ MvcIdle /\ RomIdle

CalNext ==
    \/ CalPush \/ CalTabChanged \/ CalModeChanged \/ CalStartClicked
    \/ CalStopClicked \/ CalFrame \/ CalApplyClicked \/ CalManualCapture
    \/ CalManualFinish \/ CalClose \/ CalReject

SpecCalibration == CalInit /\ [][CalNext]_vars

(***************************************************************************)
(* Session recording window: one action per handler of the UI thread, and  *)
(* the worker thread it starts.  One worker is held in the model: a new    *)
(* connection is explored once the previous worker has returned.           *)
(***************************************************************************)
\* the directories SessionRecorder created so far (kept, saved or removed)
SessionsMade == Cardinality({i \in DOMAIN session_dirs : session_dirs[i] # "absent"})

DirExists(status) == status \in {"empty", "saved"}

\* line 647: a paused session is resumed before anything else is looked at
record_resumes_Never(state) == FALSE
record_resumes(state) == state = "PAUSED"

\* line 653: a new recording needs the serial link
record_refused_Never(connected) == FALSE
record_refused(connected) == ~connected

\* _reset_session: an empty session directory is removed
DirsAfterReset ==
    IF session_recorder # NoRecorder /\ session_dirs[session_recorder.id] = "empty"
    THEN [session_dirs EXCEPT ![session_recorder.id] = "removed"]
    ELSE session_dirs

\* _reset_session
reset_session(dirs) ==
    /\ session_dirs' = dirs
    /\ recording_state' = "IDLE"
    /\ btn_record' = TRUE
    /\ btn_pause' = FALSE
    /\ btn_stop' = FALSE
    /\ session_recorder' = NoRecorder

\* _start_countdown
start_countdown ==
    /\ recording_state' = "COUNTDOWN"
    /\ pending_countdown' = 3
    /\ countdown_timer' = TRUE
    /\ btn_record' = FALSE
    /\ btn_pause' = FALSE
    /\ btn_stop' = FALSE

\* how the calibration dialog ends: rejected, or accepted with the data of
\* a one-point or of a two-point calibration
CalibrationResults == {"rejected", "one_point", "two_points"}

\* _open_calibration after dialog.exec(): only a one-point calibration
\* stores last_uncalibrated_angle on the calculator (line 944); after a
\* two-point calibration the read of line 954 raises without it
apply_calibration(result) ==
    /\ calibrated' = (calibrated \/ result # "rejected")
    /\ raw_angle_stored' = (raw_angle_stored \/ result = "one_point")

\* line 555 / 588: the frame is handed to the recorder; for an IMU frame
\* line 581 is passed first, which raises AttributeError unless a one-point
\* calibration stored the attribute
frame_recorded(state, recorder, frame_type, stored) ==
    /\ state = "RECORDING"
    /\ recorder # NoRecorder
    /\ frame_type = "IMU" => stored

\* _toggle_connection while not connected: _connect_serial
ConnectClicked ==
    /\ ~ui_waiting
    /\ btn_toggle_connection
    /\ ~is_connected
    /\ \E port \in {"", "COM1"} :
          IF port = ""
          THEN /\ ui_last' = Handled("connect", "warning_port")
               /\ UNCHANGED <<serial_thread, btn_toggle_connection, connects>>
               /\ UNCHANGED <<serVars, decoder>>
          ELSE /\ th_pc \in {"none", "done"}
               /\ connects < MaxConnects
               /\ th_pc' = "started"
               /\ running' = FALSE
               /\ stop_requested' = FALSE
               /\ serial_conn' = "none"
               /\ events' = <<>>
               /\ decoder' = NewDecoder
               /\ serial_thread' = TRUE
               /\ btn_toggle_connection' = FALSE
               /\ connects' = connects + 1
               /\ ui_last' = Handled("connect", "started")
               /\ UNCHANGED ui_queue
    /\ UNCHANGED <<is_connected, recording_state, session_recorder,
                   session_dirs, pending_countdown, countdown_timer,
                   btn_record, btn_pause, btn_stop, calibrated,
                   raw_angle_stored, patient_id,
                   t0_emg, t0_imu, ui_waiting, processed>>
    /\ UNCHANGED <<stream, garbage, fed, chunked, returned, noise_feeds>>
    /\ UNCHANGED <<cfgVars, angVars, sesVars, guiVars>>

\* _toggle_connection while connected: _disconnect_serial up to wait(2000)
DisconnectClicked ==
    /\ ~ui_waiting
    /\ btn_toggle_connection
    /\ is_connected
    /\ IF serial_thread
       THEN /\ running' = FALSE
            /\ stop_requested' = TRUE
            /\ ui_waiting' = TRUE
            /\ UNCHANGED <<is_connected, ui_last>>
       ELSE /\ is_connected' = FALSE
            /\ ui_last' = Handled("disconnect", "")
            /\ UNCHANGED <<running, stop_requested, ui_waiting>>
    /\ UNCHANGED <<th_pc, serial_conn, events, ui_queue>>
    /\ UNCHANGED <<serial_thread, btn_toggle_connection, recording_state,
                   session_recorder, session_dirs, pending_countdown,
                   countdown_timer, btn_record, btn_pause, btn_stop,
                   calibrated,
                   raw_angle_stored, patient_id, t0_emg, t0_imu, processed,
                   connects>>
    /\ UNCHANGED <<decVars, cfgVars, angVars, sesVars, guiVars>>

\* _disconnect_serial after wait(2000): the worker returned, or 2 s passed
WaitReturns ==
    /\ ui_waiting
    /\ \E timeout \in BOOLEAN : timeout \/ th_pc = "done"
    /\ serial_thread' = FALSE
    /\ is_connected' = FALSE
    /\ ui_waiting' = FALSE
    /\ ui_last' = Handled("disconnect", "")
    /\ UNCHANGED <<btn_toggle_connection, recording_state, session_recorder,
                   session_dirs, pending_countdown, countdown_timer,
                   btn_record, btn_pause, btn_stop, calibrated,
                   raw_angle_stored, patient_id,
                   t0_emg, t0_imu, processed, connects>>
    /\ UNCHANGED <<decVars, cfgVars, serVars, angVars, sesVars, guiVars>>

\* _on_connection_status, run for the next queued status signal
OnConnectionStatus ==
    /\ ~ui_waiting
    /\ ui_queue # <<>>
    /\ Head(ui_queue).sig = "connection_status"
    /\ ui_queue' = Tail(ui_queue)
    /\ is_connected' = Head(ui_queue).connected
    /\ btn_toggle_connection' = TRUE
    /\ UNCHANGED <<ui_last, serial_thread, recording_state, session_recorder,
                   session_dirs, pending_countdown, countdown_timer,
                   btn_record, btn_pause, btn_stop, calibrated,
                   raw_angle_stored, patient_id,
                   t0_emg, t0_imu, ui_waiting, processed, connects>>
    /\ UNCHANGED <<th_pc, running, stop_requested, serial_conn, events>>
    /\ UNCHANGED <<decVars, cfgVars, angVars, sesVars, guiVars>>

\* _on_frame_received, run for the next queued frame signal
OnFrameReceived ==
    /\ ~ui_waiting
    /\ ui_queue # <<>>
    /\ Head(ui_queue).sig = "frame_received"
    /\ ui_queue' = Tail(ui_queue)
    /\ LET frame == Head(ui_queue).frame
       IN /\ t0_emg' = IF frame.type = "EMG" /\ t0_emg = <<>>
                       THEN <<frame.timestamp_us>> ELSE t0_emg
          /\ t0_imu' = IF frame.type = "IMU" /\ t0_imu = <<>>
                       THEN <<frame.timestamp_us>> ELSE t0_imu
          /\ session_recorder' =
                IF frame_recorded(recording_state, session_recorder,
                                  frame.type, raw_angle_stored)
                THEN [session_recorder EXCEPT !.records = Append(@, frame)]
                ELSE session_recorder
          /\ processed' = Append(processed, frame)
    /\ UNCHANGED <<ui_last, serial_thread, is_connected, btn_toggle_connection,
                   recording_state, session_dirs, pending_countdown,
                   countdown_timer, btn_record, btn_pause, btn_stop,
                   calibrated,
                   raw_angle_stored, patient_id, ui_waiting, connects>>
    /\ UNCHANGED <<th_pc, running, stop_requested, serial_conn, events>>
    /\ UNCHANGED <<decVars, cfgVars, angVars, sesVars, guiVars>>

\* what the connection and frame handlers leave alone
connVars == <<serial_thread, is_connected, btn_toggle_connection, t0_emg,
              t0_imu, ui_waiting, processed, connects>>

\* _on_record_clicked, with _ensure_session_ready and _start_countdown
RecordClicked ==
    /\ ~ui_waiting
    /\ btn_record
    /\ IF record_resumes(recording_state)
       THEN /\ recording_state' = "RECORDING"
            /\ btn_record' = FALSE
            /\ btn_pause' = TRUE
            /\ ui_last' = Handled("record", "resumed")
            /\ UNCHANGED <<session_recorder, session_dirs, pending_countdown,
                           countdown_timer, btn_stop, calibrated,
                           raw_angle_stored>>
       ELSE IF record_refused(is_connected)
       THEN /\ ui_last' = Handled("record", "warning_connect")
            /\ UNCHANGED <<recording_state, session_recorder, session_dirs,
                           pending_countdown, countdown_timer, btn_record,
                           btn_pause, btn_stop, calibrated, raw_angle_stored>>
       ELSE \E calibrate \in BOOLEAN, result \in CalibrationResults :
          IF ~calibrated /\ calibrate
          THEN \* the calibration dialog is opened, the handler returns
               /\ apply_calibration(result)
               /\ ui_last' = Handled("record", "calibration")
               /\ UNCHANGED <<recording_state, session_recorder, session_dirs,
                              pending_countdown, countdown_timer, btn_record,
                              btn_pause, btn_stop>>
          ELSE IF session_recorder # NoRecorder
          THEN /\ start_countdown
               /\ ui_last' = Handled("record", "countdown")
               /\ UNCHANGED <<session_recorder, session_dirs, calibrated,
                              raw_angle_stored>>
          ELSE IF patient_id = ""
          THEN \* RuntimeError("Missing patient") leaves the handler
               /\ ui_last' = Handled("record", "raised_missing_patient")
               /\ UNCHANGED <<recording_state, session_recorder, session_dirs,
                              pending_countdown, countdown_timer, btn_record,
                              btn_pause, btn_stop, calibrated,
                              raw_angle_stored>>
          ELSE /\ SessionsMade < MaxSessions
               /\ session_recorder' = [NoRecorder EXCEPT !.id = SessionsMade + 1]
               /\ session_dirs' = [session_dirs EXCEPT ![SessionsMade + 1] = "empty"]
               /\ start_countdown
               /\ ui_last' = Handled("record", "countdown")
               /\ UNCHANGED <<calibrated, raw_angle_stored>>
    /\ UNCHANGED <<connVars, patient_id>>
    /\ UNCHANGED <<decVars, cfgVars, serVars, angVars, sesVars, guiVars>>

\* _advance_countdown, with _begin_recording
CountdownTick ==
    /\ ~ui_waiting
    /\ countdown_timer
    /\ pending_countdown' = pending_countdown - 1
    /\ IF pending_countdown - 1 > 0
       THEN UNCHANGED <<countdown_timer, recording_state, btn_record,
                        btn_pause, btn_stop, session_recorder>>
       ELSE /\ countdown_timer' = FALSE
            /\ recording_state' = "RECORDING"
            /\ btn_pause' = TRUE
            /\ btn_stop' = TRUE
            /\ btn_record' = FALSE
            /\ session_recorder' =
                  IF session_recorder # NoRecorder
                  THEN [session_recorder EXCEPT !.started = TRUE,
                                                !.emg_start_us = t0_emg,
                                                !.imu_start_us = t0_imu]
                  ELSE session_recorder
    /\ UNCHANGED <<ui_last, connVars, session_dirs, calibrated,
                   raw_angle_stored, patient_id>>
    /\ UNCHANGED <<decVars, cfgVars, serVars, angVars, sesVars, guiVars>>

\* _on_pause_clicked
PauseClicked ==
    /\ ~ui_waiting
    /\ btn_pause
    /\ IF recording_state # "RECORDING"
       THEN UNCHANGED <<recording_state, btn_pause, btn_record>>
       ELSE /\ recording_state' = "PAUSED"
            /\ btn_pause' = FALSE
            /\ btn_record' = TRUE
    /\ ui_last' = Handled("pause", "")
    /\ UNCHANGED <<connVars, session_recorder, session_dirs, pending_countdown,
                   countdown_timer, btn_stop, calibrated,
                   raw_angle_stored, patient_id>>
    /\ UNCHANGED <<decVars, cfgVars, serVars, angVars, sesVars, guiVars>>

\* _on_stop_clicked, with _finalize_session
StopClicked ==
    /\ ~ui_waiting
    /\ btn_stop
    /\ IF recording_state \notin {"RECORDING", "PAUSED"}
       THEN /\ ui_last' = Handled("stop", "ignored")
            /\ UNCHANGED <<recording_state, session_recorder, session_dirs,
                           btn_record, btn_pause, btn_stop>>
       ELSE IF session_recorder = NoRecorder
       THEN /\ reset_session(DirsAfterReset)
            /\ ui_last' = Handled("stop", "reset")
       ELSE /\ reset_session([session_dirs EXCEPT ![session_recorder.id] = "saved"])
            /\ ui_last' = Handled("stop", "saved")
    /\ UNCHANGED <<connVars, pending_countdown, countdown_timer, calibrated,
                   raw_angle_stored,
                   patient_id>>
    /\ UNCHANGED <<decVars, cfgVars, serVars, angVars, sesVars, guiVars>>

\* _on_reset_clicked
ResetClicked ==
    /\ ~ui_waiting
    /\ \E discard \in BOOLEAN :
          IF recording_state = "RECORDING" /\ ~discard
          THEN /\ ui_last' = Handled("reset", "kept")
               /\ UNCHANGED <<recording_state, session_recorder, session_dirs,
                              btn_record, btn_pause, btn_stop>>
          ELSE /\ reset_session(DirsAfterReset)
               /\ ui_last' = Handled("reset", "reset")
    /\ UNCHANGED <<connVars, pending_countdown, countdown_timer, calibrated,
                   raw_angle_stored,
                   patient_id>>
    /\ UNCHANGED <<decVars, cfgVars, serVars, angVars, sesVars, guiVars>>

\* _open_calibration, from the calibrate button
OpenCalibration ==
    /\ ~ui_waiting
    /\ IF ~is_connected
       THEN /\ ui_last' = Handled("calibrate", "warning_connect")
            /\ UNCHANGED <<calibrated, raw_angle_stored>>
       ELSE /\ \E result \in CalibrationResults : apply_calibration(result)
            /\ ui_last' = Handled("calibrate", "dialog")
    /\ UNCHANGED <<connVars, recording_state, session_recorder, session_dirs,
                   pending_countdown, countdown_timer, btn_record, btn_pause,
                   btn_stop, patient_id>>
    /\ UNCHANGED <<decVars, cfgVars, serVars, angVars, sesVars, guiVars>>

\* the operator types or clears the patient id
EditPatientId ==
    /\ ~ui_waiting
    /\ patient_id' \in {"", "P1"} \ {patient_id}
    /\ UNCHANGED <<ui_last, connVars, recording_state, session_recorder, session_dirs,
                   pending_countdown, countdown_timer, btn_record, btn_pause,
                   btn_stop, calibrated, raw_angle_stored>>
    /\ UNCHANGED <<decVars, cfgVars, serVars, angVars, sesVars, guiVars>>

\* the window is opened; the device sends a stream once a worker reads
RecInit ==
    /\ stream = ValidEMG \o ValidIMU
    /\ garbage = <<>>
    /\ fed = 0
    /\ chunked = FALSE
    /\ decoder = NewDecoder
    /\ returned = <<>>
    /\ noise_feeds = 0
    /\ CfgIdle
    /\ SerIdle
    /\ WinIdle
    /\ AngIdle
    /\ SesIdle /\ GuiIdle

Window ==
    \/ ConnectClicked
    \/ DisconnectClicked
    \/ WaitReturns
    \/ OnConnectionStatus
    \/ OnFrameReceived
    \/ RecordClicked
    \/ CountdownTick
    \/ PauseClicked
    \/ StopClicked
    \/ ResetClicked
    \/ OpenCalibration
    \/ EditPatientId

RecNext == Window \/ Worker

SpecRecording == RecInit /\ [][RecNext]_vars

(***************************************************************************)
(* Properties of the decoder                                               *)
(***************************************************************************)
\* the frame a wire frame decodes to
Decoded(w) == decode_payload(w[3], SubSeq(w, 4, Len(w) - 2))

\* the received CRC of a wire frame equals the CRC over type byte + payload
CrcMatches(w) ==
    LE16(crc16_ccitt(SubSeq(w, 3, Len(w) - 2))) = SubSeq(w, Len(w) - 1, Len(w))

\* the history kept with the decoder is consistent with the stream
BufferIsSuffix ==
    /\ decoder.consumed + Len(decoder.buffer) = fed
    /\ decoder.buffer = SubSeq(stream, decoder.consumed + 1, fed)

\* C1: the concatenation of the lists returned by the feed calls, for every
\* way of chunking, is the list one call with the same bytes returns; a
\* valid frame fed alone, in any chunks, yields exactly that frame.
C1_ChunkingIndependent ==
    /\ returned = feed(NewDecoder, SubSeq(stream, 1, fed)).frames
    /\ (stream \in ValidFrames /\ fed = Len(stream)) => returned = <<Decoded(stream)>>

C1_Witness ==
    /\ chunked
    /\ fed = Len(stream)
    /\ Len(returned) = 2
    /\ Len(decoder.examined) = 2

\* the garbage holds no preamble that is followed by a known frame type
NoFalseStart(g) ==
    \A i \in 1..(Len(g) - 2) :
        ~ (/\ g[i] = PREAMBLE[1]
           /\ g[i + 1] = PREAMBLE[2]
           /\ g[i + 2] \in {FRAME_TYPE_EMG, FRAME_TYPE_IMU})

TheFrame == DropFirst(stream, Len(garbage))

\* C2 as stated: whatever the garbage, exactly the one valid frame comes out
C2_AnyGarbage ==
    (fed = Len(stream) /\ fed > 0) => returned = <<Decoded(TheFrame)>>

\* C2 amended: garbage in which no preamble is followed by a known frame type
\* is discarded and exactly the one valid frame comes out.
C2_GarbageWithoutFalseStart ==
    (fed = Len(stream) /\ fed > 0 /\ NoFalseStart(garbage))
        => (returned = <<Decoded(TheFrame)>> /\ decoder.buffer = <<>>)

C2_Witness ==
    /\ fed = Len(stream)
    /\ Len(garbage) = MaxGarbage
    /\ garbage[1] = PREAMBLE[1]
    /\ garbage[2] = PREAMBLE[2]
    /\ NoFalseStart(garbage)
    /\ returned = <<Decoded(TheFrame)>>

\* C3: every examined candidate whose CRC does not match emits nothing and is
\* consumed whole (the next candidate starts after it), and every returned
\* frame comes from a candidate whose CRC matches.
C3_CrcMismatchDropped ==
    /\ \A i \in 1..Len(decoder.examined) :
          LET e == decoder.examined[i]
              w == SubSeq(stream, e.off + 1, e.off + e.size)
          IN /\ e.emitted => CrcMatches(w)
             /\ decoder.consumed >= e.off + e.size
             /\ i < Len(decoder.examined)
                   => decoder.examined[i + 1].off >= e.off + e.size
    /\ Len(returned) = Cardinality({i \in 1..Len(decoder.examined) :
                                      decoder.examined[i].emitted})

C3_Witness ==
    /\ Len(decoder.examined) = 2
    /\ ~ decoder.examined[1].emitted
    /\ decoder.examined[2].emitted
    /\ Len(returned) = 1

(***************************************************************************)
(* Properties of the configuration store                                   *)
(***************************************************************************)
\* some value of the batch that update_settings would assign cannot be coerced
SomeCoercionFails(new_values) ==
    \E i \in 1..Len(new_values) :
        /\ Assignable(new_values[i][1])
        /\ ~ coerce_value(new_values[i][1], new_values[i][2]).ok

\* C6: an update_settings call with a value that fails coercion raises, and
\* a call that raised left the record, the module-level names and the files
\* exactly as they were.
C6_FailedUpdateChangesNothing ==
    [][(last'.op = "update" /\ ops' = ops + 1)
          => /\ SomeCoercionFails(last'.batch) => last'.raised
             /\ last'.raised
                   => /\ runtime_settings' = runtime_settings
                      /\ module_globals' = module_globals
                      /\ disk' = disk]_vars

C6_Witness ==
    /\ last.op = "update"
    /\ last.raised
    /\ Len(last.batch) = 2
    /\ last.batch[1][1] = "COLOR_CH0"
    /\ coerce_value(last.batch[1][1], last.batch[1][2]).ok
    /\ runtime_settings["COLOR_CH0"] = DEFAULT_SETTINGS["COLOR_CH0"]
    /\ disk["system_config.json"].kind = "json"

\* C7 as stated: after a successful persisting update or reset, loading the
\* persisted configuration yields the in-memory value of every non-derived key
C7_DiskMatchesMemory ==
    (last.op \in {"update", "reset"} /\ ~ last.raised /\ last.persist)
        => /\ ~ load_settings(disk).raised
           /\ \A k \in DefaultKeys :
                 load_settings(disk).settings[k] = runtime_settings[k]

\* C8: every derived value is its formula applied to the current inputs,
\* whatever was passed for a derived key, and no file the program wrote
\* holds a derived key.
C8_DerivedConsistent ==
    LET emg == Hundredths(runtime_settings["EMG_FS"])
        win == Hundredths(runtime_settings["WINDOW_TIME_SEC"])
        fps == Hundredths(runtime_settings["UPDATE_FPS"])
    IN /\ runtime_settings["RMS_WINDOW_SAMPLES"]
             = IntV((emg * runtime_settings["RMS_WINDOW_MS"].n) \div 100000)
       /\ runtime_settings["EMG_BUFFER_SIZE"] = IntV((emg * win) \div 10000)
       /\ runtime_settings["IMU_BUFFER_SIZE"]
             = IntV((runtime_settings["IMU_FS"].n * win) \div 100)
       /\ runtime_settings["UPDATE_INTERVAL_MS"]
             = IntV(100000 \div (IF fps > 100 THEN fps ELSE 100))
       /\ \A f \in Files :
             (disk[f].kind = "json" /\ disk[f].by = "program")
                => DOMAIN disk[f].data \cap DerivedKeys = {}

C8_Witness ==
    /\ last.op = "update"
    /\ ~ last.raised
    /\ last.persist
    /\ \E i \in 1..Len(last.batch) :
          last.batch[i] = <<"RMS_WINDOW_SAMPLES", IntV(5)>>
    /\ runtime_settings["WINDOW_TIME_SEC"] = FloatV(250)
    /\ runtime_settings["EMG_BUFFER_SIZE"] = IntV(4089)
    /\ runtime_settings["RMS_WINDOW_SAMPLES"] = IntV(163)

\* C9 as stated: load_settings raises for no content of the configuration
\* file, and a file that is not a JSON document leaves the defaults
C9_LoadNeverRaises ==
    last.op = "load"
        => /\ ~ last.raised
           /\ disk["system_config.json"].kind # "json"
                 => runtime_settings
                       = compute_derived(normalize_settings(DEFAULT_SETTINGS)).settings


(***************************************************************************)
(* Properties of the serial worker                                         *)
(***************************************************************************)
\* the run connected to the port at some point
WasOpened == \E i \in 1..Len(events) : events[i].connected

\* C10: when run has returned, whatever path it took (the port failed to
\* open, a read or decode raised, a stop was requested), the connection is
\* closed if it was opened, and the last event of the run is a disconnected
\* (False) status event: no frame event or connected event follows it.
C10_RunEndsDisconnected ==
    th_pc = "done" =>
        /\ serial_conn # "open"
        /\ WasOpened => serial_conn = "closed"
        /\ events # <<>>
        /\ events[Len(events)] = StatusEvent(FALSE, "Desconectado")

\* a run that connected, emitted a frame, was asked to stop and returned
C10_Witness ==
    /\ th_pc = "done"
    /\ stop_requested
    /\ serial_conn = "closed"
    /\ \E i \in 1..Len(events) : events[i].sig = "frame_received"


(***************************************************************************)
(* Properties of the session recording window                              *)
(***************************************************************************)
\* a step that starts nothing: state, recorder, directories and countdown
\* are as before
NothingStarted ==
    /\ recording_state' = recording_state
    /\ session_recorder' = session_recorder
    /\ session_dirs' = session_dirs
    /\ countdown_timer' = countdown_timer
    /\ pending_countdown' = pending_countdown

\* C4 as stated: every record press made while the link is disconnected is
\* refused, whatever the recording state.
C4_AnyDisconnectedPress ==
    [][(RecordClicked /\ ~is_connected) => NothingStarted]_vars

\* C4: a record press made while the link is disconnected and the session
\* is not paused is refused: the recording state does not change, no
\* session recorder or session directory is created, no countdown starts.
C4_DisconnectedStartRefused ==
    [][(RecordClicked /\ ~is_connected /\ recording_state # "PAUSED")
          => NothingStarted]_vars

\* a record press was refused after the link had been up and went down
C4_Witness ==
    /\ ui_last = Handled("record", "warning_connect")
    /\ ~is_connected
    /\ connects >= 1
    /\ th_pc = "done"
    /\ patient_id = "P1"
    /\ recording_state = "IDLE"
    /\ session_recorder = NoRecorder
    /\ \A i \in DOMAIN session_dirs : session_dirs[i] = "absent"

\* C5: a record press while Paused moves to Recording; from the pause to the
\* resume the countdown timer stays inactive and the session recorder, its
\* records and its directory are the ones that existed at the pause.
C5_ResumeKeepsSession ==
    [][recording_state = "PAUSED" =>
          /\ RecordClicked => recording_state' = "RECORDING"
          /\ recording_state' # "IDLE" =>
                /\ session_recorder' = session_recorder
                /\ session_dirs' = session_dirs
                /\ pending_countdown' = pending_countdown
                /\ ~countdown_timer /\ ~countdown_timer']_vars

\* a session with recorded frames was paused and resumed
C5_Witness ==
    /\ ui_last = Handled("record", "resumed")
    /\ recording_state = "RECORDING"
    /\ session_recorder # NoRecorder
    /\ session_recorder.started
    /\ session_recorder.records # <<>>
    /\ DirExists(session_dirs[session_recorder.id])


(***************************************************************************)
(* Properties of the serial worker under a fair scheduler                  *)
(***************************************************************************)
\* C11: once stop() was called on a started worker, the read loop exits and
\* the thread terminates, whatever the interleaving of stop() with run().
C11_StopTerminates == stop_requested ~> th_pc = "done"


(***************************************************************************)
(* Properties of the hand-off from the worker to the UI thread             *)
(***************************************************************************)
\* the frames carried by the frame events of a sequence of signals
RECURSIVE FramesOf(_)
FramesOf(q) ==
    IF q = <<>> THEN <<>>
    ELSE IF Head(q).sig = "frame_received"
         THEN <<Head(q).frame>> \o FramesOf(Tail(q))
         ELSE FramesOf(Tail(q))

C13_RawAngleRecorded ==
    /\ angle_last.op \in {"construct", "update"} => angle_last.read_raised = ""
    /\ angle_last.op = "update" => calc.last_uncalibrated_angle = <<calc.angle>>

\* the calibrated angle update returns for a raw (fused) angle x
CalibratedAt(x) == calibrated_angle([calc EXCEPT !.angle = x])

\* C14: after calibrate_two_points(raw1, ref1, raw2, ref2) with raw1 other
\* than raw2 the calibrated output is the affine map through both points:
\* raw1 gives ref1, raw2 gives ref2 and the middle of the raw range gives the
\* middle of the reference range, for every choice of reference values.
C14_AffineThroughBothPoints ==
    angle_last.op = "calibrate_two_points" =>
        LET p == angle_last.points
        IN /\ angle_last.raised = ""
           /\ calc.calibrated
           /\ CalibratedAt(RInt(p[1])) = RInt(p[2])
           /\ CalibratedAt(RInt(p[3])) = RInt(p[4])
           /\ CalibratedAt(Rat(p[1] + p[3], 2)) = Rat(p[2] + p[4], 2)


(***************************************************************************)
(* Properties of the session storage                                       *)
(***************************************************************************)
\* C15: a load of the directory as finalize wrote it raises nothing and
\* gives back, for each stream, the recorded sequence numbers in order; a
\* stream with no recorded sample loads as absent (has_emg / has_imu false)
C15_RoundTrip ==
    (loaded.op # "none" /\ ses_phase = "finalized") =>
        /\ loaded.op = "loaded"
        /\ loaded.has_emg = (emg_records # <<>>)
        /\ loaded.has_imu = (imu_records # <<>>)
        /\ emg_records # <<>> => loaded.emg = Arr(emg_records)
        /\ imu_records # <<>> => loaded.imu = Arr(imu_records)

\* C16: no load of the directory raises, whichever file of it is missing,
\* damaged, or the empty placeholder of a session without samples
C16_LoadingNeverFails == loaded.raised = ""


(***************************************************************************)
(* Properties of the recording state machine                               *)
(***************************************************************************)
\* the edges of the recording state machine: Idle to Countdown on a record
\* press while connected, Countdown to Recording when the countdown reaches
\* zero, Recording to Paused on pause, Paused to Recording on record,
\* Recording or Paused to Idle on stop, and to Idle on reset
SpecifiedEdge ==
    \/ /\ recording_state = "IDLE" /\ recording_state' = "COUNTDOWN"
       /\ RecordClicked /\ is_connected
    \/ /\ recording_state = "COUNTDOWN" /\ recording_state' = "RECORDING"
       /\ CountdownTick /\ pending_countdown' = 0
    \/ /\ recording_state = "RECORDING" /\ recording_state' = "PAUSED"
       /\ PauseClicked
    \/ /\ recording_state = "PAUSED" /\ recording_state' = "RECORDING"
       /\ RecordClicked
    \/ /\ recording_state \in {"RECORDING", "PAUSED"}
       /\ recording_state' = "IDLE" /\ StopClicked
    \/ recording_state' = "IDLE" /\ ResetClicked

\* C17: the recording state changes only along the specified edges, and a
\* pause press changes it in no state other than Recording
C17_OnlySpecifiedEdges ==
    [][/\ recording_state' # recording_state => SpecifiedEdge
       /\ (PauseClicked /\ recording_state # "RECORDING") =>
              recording_state' = recording_state]_vars

\* C18: the window is never in the Recording state without a session
\* recorder whose start() was called
C18_RecordingHasStartedRecorder ==
    recording_state = "RECORDING" =>
        session_recorder # NoRecorder /\ session_recorder.started

\* C19: a frame is handed to the recorder if and only if the state is
\* Recording when the handler processes it
C19_RecordedIffRecording ==
    [][OnFrameReceived =>
          ((recording_state = "RECORDING") <=>
           (session_recorder' # session_recorder))]_vars

\* C20: whenever the recording state is not Countdown the countdown timer is
\* inactive
C20_TimerOnlyInCountdown ==
    recording_state # "COUNTDOWN" => ~countdown_timer


(***************************************************************************)
(* Properties of the record handler                                        *)
(***************************************************************************)
\* C21: a record press while connected, in Idle, with an empty patient id
\* and no session prepared lets no error escape the handler, and leaves
\* the state, the recorder, the directories and the countdown as they were
C21_MissingPatientOnlyWarns ==
    [][(/\ RecordClicked
        /\ is_connected
        /\ recording_state = "IDLE"
        /\ session_recorder = NoRecorder
        /\ patient_id = "")
       => /\ ui_last'.outcome # "raised_missing_patient"
          /\ recording_state' = "IDLE"
          /\ session_recorder' = NoRecorder
          /\ session_dirs' = session_dirs
          /\ countdown_timer' = countdown_timer]_vars


(***************************************************************************)
(* Properties of the connection management                                 *)
(***************************************************************************)
LiveThreads == {i \in 1..MaxThreads : Live(threads[i])}

\* C22: at most one worker started by the window is running at any moment
C22_AtMostOneLiveWorker == Cardinality(LiveThreads) <= 1

C24_StartRefusedWhileMeasuring ==
    [][(MvcStartClicked /\ mvc.active # None) =>
          /\ mvc'.last = "refused"
          /\ mvc'.active = mvc.active
          /\ mvc'.remaining_ms = mvc.remaining_ms
          /\ mvc'.current_max = mvc.current_max
          /\ mvc'.timer = mvc.timer]_vars

\* a start request for the other channel was refused part-way through a
\* measurement that had already tracked a maximum
C24_Witness ==
    /\ mvc.last = "refused"
    /\ mvc.active # None
    /\ mvc.remaining_ms < MEASURE_MS
    /\ mvc.current_max > 0

\* C25: once the dialog has been closed or dismissed the timer is stopped
\* and no channel is active, and from then on no MVC value changes and no
\* MVC-computed event is emitted
C25_ClosedMeasurementCancelled ==
    /\ [](mvc.phase # "open" => (~mvc.timer /\ mvc.active = None))
    /\ [][mvc.phase # "open" =>
             (mvc'.values = mvc.values /\ mvc'.emitted = mvc.emitted)]_vars

\* the absolute RMS values pushed for the channel during the measurement
PushedMax == IF mvc.pushed = {} THEN 0
             ELSE CHOOSE m \in mvc.pushed : \A x \in mvc.pushed : x <= m

\* C26: a measurement ends on the tick that uses up the 3000 ms budget,
\* the 30th, and not before; it commits the maximum absolute RMS pushed for
\* the channel during the countdown, or the last pushed absolute RMS if
\* that maximum is zero; with no positive peak the stored MVC is None and
\* no event is emitted
C26_MeasurementCommitsPeak ==
    [][(MvcTick /\ mvc.active # None) =>
          LET channel == mvc.active[1]
              peak == IF PushedMax > 0 THEN PushedMax
                      ELSE Abs(mvc.current_rms[channel])
          IN  IF mvc.ticks + 1 < MEASURE_MS \div TICK_MS
              THEN /\ mvc'.active = mvc.active
                   /\ mvc'.timer
                   /\ mvc'.values = mvc.values
                   /\ mvc'.emitted = mvc.emitted
              ELSE /\ mvc.ticks + 1 = MEASURE_MS \div TICK_MS
                   /\ mvc'.active = None
                   /\ ~mvc'.timer
                   /\ mvc'.values =
                        [mvc.values EXCEPT ![channel] =
                            IF peak > 0 THEN Some(peak) ELSE None]
                   /\ mvc'.values[channel] # Some(0)
                   /\ mvc'.emitted =
                        IF peak > 0
                        THEN Append(mvc.emitted, <<channel, peak>>)
                        ELSE mvc.emitted]_vars

\* a measurement ended on its 30th tick and committed the largest of the
\* absolute values pushed during it
C26_Witness ==
    /\ mvc.last = "committed"
    /\ mvc.ticks = MEASURE_MS \div TICK_MS
    /\ mvc.pushed = {0, 1, 2}
    /\ mvc.emitted = <<<<1, 2>>>>
    /\ mvc.values[1] = Some(2)


\* C27: once flexion is registered the dialog only accepts or resets (the
\* extension is not registered again), and an accepted ROM is computed from
\* an extension and a flexion registered in that order since the last reset,
\* the flexion being the largest angle seen from the extension click on
C27_RomFromOneCycle ==
    /\ [](rom.result = "accepted" =>
            /\ rom.extension_angle # None /\ rom.flexion_angle # None
            /\ 0 < rom.ext_at /\ rom.ext_at < rom.flex_at
            /\ rom.flexion_angle = Some(SetMax(rom.flex_window)))
    /\ [][rom.stage = "done" /\ rom'.nops # rom.nops =>
            rom'.last \in {"accepted", "reset"}]_vars


\* the capture of the dialog holds no camera, no pose estimator and no timer
Released(d) == ~d.timer /\ d.video_capture = "none" /\ ~d.pose

\* C28: after the stop button, a mode change, a change to the manual tab, and
\* after the dialog was closed or dismissed in any way (close, reject,
\* accept), the camera, the pose estimator and the frame timer are released
C28_ReleasedOnEveryExit ==
    (\/ cal.result # "open"
     \/ cal.last \in {"stopped", "mode_changed", "tab_changed"})
        => Released(cal)

\* C29: a capture is recorded only when the last frames_needed processed
\* frames were all good for the current target; it advances the target,
\* resets the counters and stops the capture when no target remains; a
\* processed frame that is not good leaves the counter of the current target
\* at 0; there are never more captures than targets
C29_CaptureAfterStableFrames ==
    /\ [](/\ Len(cal.captures) <= Len(cal.targets)
          /\ (cal.last \in {"no_pose", "not_visible", "nan", "off_target"}
                => cal.stability[cal.current_target + 1] = 0))
    /\ [][Len(cal'.captures) > Len(cal.captures) =>
            /\ Len(cal'.captures) = Len(cal.captures) + 1
            /\ Len(cal'.log) = frames_needed
            /\ \A i \in 1..frames_needed : cal'.log[i] = cal.current_target
            /\ cal'.current_target = cal.current_target + 1
            /\ cal'.stability = Zeros(Len(cal.targets))
            /\ (cal'.current_target >= Len(cal.targets) => Released(cal'))]_vars

\* the second of two targets was captured and the capture stopped by itself
C29_Witness ==
    /\ Len(cal.captures) = 2
    /\ cal.last = "on_target"
    /\ cal.current_target = 2
    /\ Released(cal)


\* C30: after every feed call the buffer holds fewer bytes than the largest
\* frame (the 23 bytes of an IMU frame), whatever was fed in the calls so far
C30_BufferBelowLargestFrame ==
    Len(decoder.buffer) < TotalFrameSize(PayloadSize(FRAME_TYPE_IMU))

\* more than a frame of bytes was fed in several calls, none of them part of
\* a complete frame, and the buffer holds 22 bytes
C30_Witness ==
    /\ noise_feeds >= 3
    /\ fed > TotalFrameSize(PayloadSize(FRAME_TYPE_IMU))
    /\ decoder.examined = <<>>
    /\ Len(decoder.buffer) = TotalFrameSize(PayloadSize(FRAME_TYPE_IMU)) - 1

====
